---- MODULE Spec2Model ----
(***************************************************************************)
(* Verification model of the EVE Frontier blueprint/market tool:           *)
(*   - MarketLogParser (services/market_log_parser.py): log discovery,     *)
(*     the type_id -> files index, per-file parsing and order              *)
(*     deduplication;                                                      *)
(*   - ProductionService.get_manufacturing_details                         *)
(*     (services/production_service.py): the recursive production chain    *)
(*     resolver with its cost rollup.                                      *)
(*                                                                         *)
(* Numbers.  Prices read from the logs are floats with one decimal in the  *)
(* modelled data; they are kept as integer tenths (5.5 is 55).  Decimal    *)
(* amounts of the resolver are kept as exact fractions [n, d]; Python's    *)
(* Decimal rounds a quotient to 28 significant digits, which the model     *)
(* does not reproduce.                                                     *)
(***************************************************************************)
EXTENDS Integers, Sequences, FiniteSets, TLC

VARIABLES
    market,         \* the game's order book: order id -> [day, vol, price]
    logDir,         \* the log directory: the exported files, in listing order
    typeIdToFiles,  \* MarketLogParser._type_id_to_files
    fileCache,      \* MarketLogParser._file_cache
    parserCall,     \* the last parser call: operation, argument, number of files
                    \* in the directory at the call, files used, result
    itemTable,      \* the items table: the known item ids
    blueprints,     \* the blueprint tables, one record per blueprint, in row order
    marketData,     \* the market_data table: item id -> its rows, in query order
    marketStats,    \* what MarketService.get_market_statistics returns per item
    marketHistory,  \* the market_history table: item id -> its rows of the last day
    request,        \* the arguments of the get_manufacturing_details call
    chain,          \* the call's outcome: [done, node], node an optional tree
    cacheDir,       \* the cache directory: cache name -> the JSON text of the file
    serviceCall,    \* the last call of a market-service or scanner operation
    loader,         \* the DataLoader thread of the market tab: position, flags,
                    \* the signals it emitted, the catalog it holds
    tab,            \* the interface thread inside MarketDataTab.reload_market_data
    caller,         \* a thread that loads the catalog through its own MarketService
    memory          \* MarketService._unified_market_data of the tab's service

parserVars == <<market, logDir, typeIdToFiles, fileCache, parserCall>>

resolverVars == <<itemTable, blueprints, marketData, marketHistory, marketStats,
                  request, chain>>

serviceVars == <<cacheDir, serviceCall>>

workerVars == <<loader, tab, caller, memory>>

vars == <<market, logDir, typeIdToFiles, fileCache, parserCall,
          itemTable, blueprints, marketData, marketHistory, marketStats, request, chain,
          cacheDir, serviceCall, loader, tab, caller, memory>>

----------------------------------------------------------------------------
(* Bounds of the model *)

\* number of log files the game client exports
MaxFiles == 2
\* number of changes to one order: re-issues (price change, new issue date)
\* and partial fills (volume drops, issue date stays)
MaxChanges == 1
\* cap on the length of one index entry of _type_id_to_files
MaxIndexLen == 1

----------------------------------------------------------------------------
(* Generic helpers *)

Range(s) == {s[i] : i \in DOMAIN s}

\* Optional values are sequences of length 0 (None) or 1
None == <<>>
Some(x) == <<x>>

\* the float 0.0 (floats are defined with the production service)
FloatZero == [n |-> <<>>, e |-> 0]

\* the element of a one-element set; used to compute a value once and name it
Only(S) == CHOOSE x \in S : TRUE

SetMin(S) == CHOOSE x \in S : \A y \in S : x <= y
SetMax(S) == CHOOSE d \in S : \A e \in S : d >= e

\* all orders in which n entries can be listed
Perms(n) == {p \in [1..n -> 1..n] : \A i, j \in 1..n : p[i] = p[j] => i = j}

\* a is a contiguous part of b (Python's `a in b` on strings)
IsSubstring(a, b) ==
    \E k \in 0..(Len(b) - Len(a)) : \A i \in 1..Len(a) : b[k + i] = a[i]

\* Python's string comparison a > b on two equally long digit strings
RECURSIVE StrGreater(_, _)
StrGreater(a, b) ==
    IF a = <<>> \/ b = <<>> THEN a # <<>> /\ b = <<>>
    ELSE IF Head(a) # Head(b) THEN Head(a) > Head(b)
    ELSE StrGreater(Tail(a), Tail(b))

----------------------------------------------------------------------------
(* The environment: the game's order book and its exported log files *)

TypeIds == {34, 35}
OrderIds == {555, 557}
\* the orders that change while the logs are exported; the others rest unchanged
ActiveOrders == {555}

\* fixed attributes of the orders of the modelled market
OrderTypeId(o) == IF o = 557 THEN 35 ELSE 34
OrderBid(o) == IF o = 557 THEN "True" ELSE "False"
OrderStation(o) == IF o = 557 THEN 60002 ELSE 60001

\* item label of a log file name, as characters
ItemLabel(t) == IF t = 34 THEN <<"t", "r", "i">> ELSE <<"p", "y", "e">>

\* an order as first issued: day of month, remaining volume, price in tenths
FirstIssue == [day |-> 9, vol |-> 10, price |-> 50]

\* the timestamp part of the k-th exported file name
Stamp(k) == <<"1", "2", "3", "4", "5">>[k]

\* the issueDate column: a fixed-width timestamp, here its day-of-month digits
FormatDate(day) == <<day \div 10, day % 10>>

\* the file stem <source>-<item-label>-<timestamp>
FileStem(t, k) == <<"r", "-">> \o ItemLabel(t) \o <<"-", Stamp(k)>>

\* one row of an exported log, keyed by the CSV column names of the game client;
\* garbled names the columns whose text is not a number (none in a fresh export)
ExportRow(o) ==
    [ price        |-> market[o].price,
      volRemaining |-> market[o].vol,
      typeID       |-> OrderTypeId(o),
      orderID      |-> o,
      bid          |-> OrderBid(o),
      issueDate    |-> FormatDate(market[o].day),
      stationID    |-> OrderStation(o),
      garbled      |-> {} ]

RECURSIVE SetToSeq(_)
SetToSeq(S) ==
    IF S = {} THEN <<>>
    ELSE LET x == CHOOSE y \in S : \A z \in S : y <= z
         IN <<x>> \o SetToSeq(S \ {x})

\* the rows of an export of item t: every order of t currently on the book
ExportRows(t) ==
    LET ids == SetToSeq({o \in OrderIds : OrderTypeId(o) = t})
    IN [i \in 1..Len(ids) |-> ExportRow(ids[i])]

\* the number of changes made to an order since it was first issued
Changes(o) == (market[o].day - FirstIssue.day) + (FirstIssue.vol - market[o].vol)

\* The order book is seen by the parser only through the exports, so it is
\* followed only as long as one more export can be made.

\* the owner of an order changes its price: the order gets a new issue date
Reissue(o) ==
    /\ Len(logDir) < MaxFiles
    /\ Changes(o) < MaxChanges
    /\ market' = [market EXCEPT ![o] = [day   |-> @.day + 1,
                                        vol   |-> @.vol,
                                        price |-> @.price + 5]]
    /\ UNCHANGED <<logDir, typeIdToFiles, fileCache, parserCall, resolverVars, workerVars, serviceVars>>

\* part of an order is filled: the remaining volume drops, the issue date stays
Fill(o) ==
    /\ Len(logDir) < MaxFiles
    /\ Changes(o) < MaxChanges
    /\ market' = [market EXCEPT ![o].vol = @ - 1]
    /\ UNCHANGED <<logDir, typeIdToFiles, fileCache, parserCall, resolverVars, workerVars, serviceVars>>

InsertAt(s, pos, x) == SubSeq(s, 1, pos - 1) \o <<x>> \o SubSeq(s, pos, Len(s))

\* the game client exports the order book of item t to a new log file; the
\* file system lists the new file at any place among the others, and the
\* listing keeps its order while the directory is unchanged
ExportLog(t) ==
    /\ Len(logDir) < MaxFiles
    /\ \E pos \in 1..(Len(logDir) + 1) :
          logDir' = InsertAt(logDir, pos, [path |-> Len(logDir) + 1,
                                           stem |-> FileStem(t, Len(logDir) + 1),
                                           readable |-> TRUE,
                                           rows |-> ExportRows(t)])
    /\ UNCHANGED <<market, typeIdToFiles, fileCache, parserCall, resolverVars, workerVars, serviceVars>>

----------------------------------------------------------------------------
(* MarketLogParser: parsing one file *)

\* int(row.get(column, 0)) / float(row.get(column, 0)) succeeds
IsNumber(row, column) == column \notin row.garbled

NumericColumns == {"price", "volRemaining", "typeID", "orderID", "stationID"}

\* a row is malformed when a numeric column does not parse (ValueError)
WellFormedRow(row) == \A column \in NumericColumns : IsNumber(row, column)

\* the row -> order conversion of parse_log_file
ParseRow(row) ==
    [ price            |-> row.price,
      volume_remaining |-> row.volRemaining,
      type_id          |-> row.typeID,
      order_id         |-> row.orderID,
      is_buy_order     |-> (row.bid \in {"True", "true", "TRUE"}),
      issue_date       |-> row.issueDate,
      station_id       |-> row.stationID ]

\* the row loop of parse_log_file: malformed rows are skipped
ParseRows(rows) ==
    Only({[i \in DOMAIN kept |-> ParseRow(kept[i])] :
            kept \in {SelectSeq(rows, WellFormedRow)}})

FileAt(path) == CHOOSE f \in Range(logDir) : f.path = path

\* open(file_path, 'r') succeeds
CanOpen(path) == FileAt(path).readable

\* what parse_log_file returns for a path: the cached list, else a fresh
\* parse; a file that cannot be opened gives the empty list
ParseLogFile(path) ==
    IF path \in DOMAIN fileCache THEN fileCache[path]
    ELSE IF CanOpen(path) THEN ParseRows(FileAt(path).rows)
    ELSE <<>>

\* _file_cache after parse_log_file has been called on each of the paths: a
\* file that could not be opened is not cached
CacheAfter(paths) ==
    [p \in DOMAIN fileCache \cup {q \in paths : CanOpen(q)} |-> ParseLogFile(p)]

----------------------------------------------------------------------------
(* MarketLogParser: deduplication by order_id *)

\* a dedup loop without the issue-date test: the record scanned last is kept
ReplacesKeptAlways(order, kept) == TRUE

\* the test that lets a later-scanned record replace the one already kept
ReplacesKept(order, kept) == StrGreater(order.issue_date, kept.issue_date)

\* order_map[order_id] = order, under the test of the dedup loop; order_map is
\* a Python dict, kept here as the sequence of its values in insertion order
DedupPut(order_map, order) ==
    LET hits == {i \in DOMAIN order_map : order_map[i].order_id = order.order_id}
    IN IF hits = {} THEN Append(order_map, order)
       ELSE LET i == CHOOSE j \in hits : TRUE
            IN IF ReplacesKept(order, order_map[i])
               THEN [order_map EXCEPT ![i] = order]
               ELSE order_map

RECURSIVE DedupOrders(_, _, _)
\* the inner loop over one file's orders; type_id = 0 means no type filter
DedupOrders(order_map, orders, type_id) ==
    IF orders = <<>> THEN order_map
    ELSE Only({DedupOrders(next, Tail(orders), type_id) :
                 next \in {IF type_id = 0 \/ Head(orders).type_id = type_id
                           THEN DedupPut(order_map, Head(orders)) ELSE order_map}})

RECURSIVE DedupFiles(_, _, _)
\* the outer loop over the selected files, in the order of the list
DedupFiles(order_map, log_files, type_id) ==
    IF log_files = <<>> THEN order_map
    ELSE DedupFiles(DedupOrders(order_map, ParseLogFile(Head(log_files)), type_id),
                    Tail(log_files), type_id)

----------------------------------------------------------------------------
(* MarketLogParser: file discovery and the type_id -> files index *)

\* log_directory.glob("*.txt"): the paths in the order the file system lists them
Glob == [i \in 1..Len(logDir) |-> logDir[i].path]

\* the type ids found in the first rows of a file
ExtractLimit == 5
\* a row whose typeID does not parse ends the loop (the exception is caught)
\* and a file that cannot be opened gives the empty set
ExtractTypeIdsFromFile(path) ==
    LET rows == FileAt(path).rows
        bad  == {j \in DOMAIN rows : ~IsNumber(rows[j], "typeID")}
        stop == IF bad = {} THEN Len(rows) + 1 ELSE CHOOSE j \in bad : \A k \in bad : j <= k
    IN IF ~CanOpen(path) THEN {}
       ELSE {rows[i].typeID : i \in {j \in DOMAIN rows :
                                       j <= ExtractLimit /\ j < stop /\ rows[j].typeID > 0}}

RECURSIVE SplitOn(_, _)
\* s.split(sep) on a sequence of characters
SplitOn(s, sep) ==
    LET hits == {i \in DOMAIN s : s[i] = sep}
    IN IF hits = {} THEN <<s>>
       ELSE LET i == CHOOSE j \in hits : \A k \in hits : j <= k
            IN <<SubSeq(s, 1, i - 1)>> \o SplitOn(SubSeq(s, i + 1, Len(s)), sep)

RECURSIVE JoinWith(_, _)
\* sep.join(parts)
JoinWith(parts, sep) ==
    IF Len(parts) = 0 THEN <<>>
    ELSE IF Len(parts) = 1 THEN parts[1]
    ELSE parts[1] \o <<sep>> \o JoinWith(Tail(parts), sep)

\* the item name get_available_items takes from a file stem: the part between
\* the first and the last hyphen (stems without a hyphen are skipped)
StemItemName(stem) ==
    LET parts == SplitOn(stem, "-")
    IN IF Len(parts) > 2 THEN JoinWith(SubSeq(parts, 2, Len(parts) - 1), "-")
       ELSE parts[Len(parts)]

RECURSIVE IndexTypeIds(_, _, _)
\* the loop over the type ids of one file in get_available_items
IndexTypeIds(acc, path, type_ids) ==
    IF type_ids = <<>> THEN acc
    ELSE LET t == Head(type_ids)
         IN IF t \in acc.seen THEN IndexTypeIds(acc, path, Tail(type_ids))
            ELSE IndexTypeIds(
                   [ seen  |-> acc.seen \cup {t},
                     index |-> [acc.index EXCEPT ![t] = Append(@, path)],
                     items |-> Append(acc.items, [name     |-> StemItemName(FileAt(path).stem),
                                                  type_id  |-> t,
                                                  log_file |-> path]) ],
                   path, Tail(type_ids))

RECURSIVE AvailableItems(_, _)
\* the loop over the files in get_available_items
AvailableItems(acc, paths) ==
    IF paths = <<>> THEN acc
    ELSE IF Len(SplitOn(FileAt(Head(paths)).stem, "-")) < 2
         THEN AvailableItems(acc, Tail(paths))
    ELSE AvailableItems(
           IndexTypeIds(acc, Head(paths), SetToSeq(ExtractTypeIdsFromFile(Head(paths)))),
           Tail(paths))

\* the row loop of the fallback scan over one file: the loop stops at the
\* first row of type_id; open() and int() are not guarded there, so a file
\* that cannot be opened, or a typeID that does not parse before a row of
\* type_id is met, raises
ScanFile(path, type_id) ==
    LET rows  == FileAt(path).rows
        hit   == {j \in DOMAIN rows : IsNumber(rows[j], "typeID") /\ rows[j].typeID = type_id}
        bad   == {j \in DOMAIN rows : ~IsNumber(rows[j], "typeID")}
        first == IF hit = {} THEN Len(rows) + 1 ELSE CHOOSE j \in hit : \A k \in hit : j <= k
    IN IF ~CanOpen(path) THEN "raised"
       ELSE IF \E j \in bad : j < first THEN "raised"
       ELSE IF hit # {} THEN "found"
       ELSE "absent"

RECURSIVE ScanForTypeId(_, _)
\* the fallback scan of parse_logs_for_type_id: the files holding a row of
\* type_id, found before the scan ended or raised
ScanForTypeId(paths, type_id) ==
    IF paths = <<>> THEN [files |-> <<>>, raised |-> FALSE]
    ELSE LET outcome == ScanFile(Head(paths), type_id)
             rest    == ScanForTypeId(Tail(paths), type_id)
         IN IF outcome = "raised" THEN [files |-> <<>>, raised |-> TRUE]
            ELSE [files  |-> (IF outcome = "found" THEN <<Head(paths)>> ELSE <<>>) \o rest.files,
                  raised |-> rest.raised]

\* glob("*-{item_name}-*.txt")
MatchesPattern(item_name, path) ==
    IsSubstring(<<"-">> \o item_name \o <<"-">>, FileAt(path).stem)

\* item_name.lower() in f.stem.lower()
MatchesLoosely(item_name, path) == IsSubstring(item_name, FileAt(path).stem)

----------------------------------------------------------------------------
(* MarketLogParser: the operations *)

\* raised: the call ended with an exception instead of a result
NoCall == [op |-> "none", arg |-> 0, dir_size |-> 0, log_files |-> <<>>,
           raised |-> FALSE, result |-> <<>>]

GetAvailableItems ==
       LET acc == AvailableItems([seen |-> {}, index |-> typeIdToFiles, items |-> <<>>],
                                 Glob)
       IN /\ \A t \in TypeIds : Len(acc.index[t]) <= MaxIndexLen
          /\ typeIdToFiles' = acc.index
          /\ parserCall' = [op |-> "get_available_items", arg |-> 0, dir_size |-> Len(logDir),
                            log_files |-> <<>>, raised |-> FALSE, result |-> acc.items]
          /\ UNCHANGED <<market, logDir, fileCache, resolverVars, workerVars, serviceVars>>

ParseLogsForTypeId(type_id) ==
       LET indexed   == typeIdToFiles[type_id] # <<>>
           scan      == ScanForTypeId(Glob, type_id)
           raised    == ~indexed /\ scan.raised
           log_files == IF indexed THEN typeIdToFiles[type_id] ELSE scan.files
       IN /\ typeIdToFiles' = IF indexed THEN typeIdToFiles
                              ELSE [typeIdToFiles EXCEPT ![type_id] = @ \o log_files]
          /\ fileCache' = IF raised THEN fileCache ELSE CacheAfter(Range(log_files))
          /\ parserCall' = [op |-> "parse_logs_for_type_id", arg |-> type_id,
                            dir_size |-> Len(logDir),
                            log_files |-> log_files,
                            raised |-> raised,
                            result |-> IF raised THEN <<>>
                                       ELSE DedupFiles(<<>>, log_files, type_id)]
          /\ UNCHANGED <<market, logDir, resolverVars, workerVars, serviceVars>>

ItemNames == {ItemLabel(34), <<"-">>}

ParseLogsForItem(item_name) ==
       LET Exact(p)  == MatchesPattern(item_name, p)
           Loose(p)  == MatchesLoosely(item_name, p)
           exact     == SelectSeq(Glob, Exact)
           log_files == IF exact # <<>> THEN exact ELSE SelectSeq(Glob, Loose)
       IN /\ fileCache' = CacheAfter(Range(log_files))
          /\ parserCall' = [op |-> "parse_logs_for_item", arg |-> item_name,
                            dir_size |-> Len(logDir),
                            log_files |-> log_files,
                            raised |-> FALSE,
                            result |-> DedupFiles(<<>>, log_files, 0)]
          /\ UNCHANGED <<market, logDir, typeIdToFiles, resolverVars, workerVars, serviceVars>>

ClearCache ==
    /\ DOMAIN fileCache # {}
    /\ fileCache' = <<>>
    /\ UNCHANGED <<market, logDir, typeIdToFiles, parserCall, resolverVars, workerVars, serviceVars>>

----------------------------------------------------------------------------
(* MarketLogParser: the unified catalog document *)

\* Python dicts with string keys are kept as sequences of <<key, value>> pairs
\* in insertion order, one pair per key
DictGet(dict, key) ==
    LET hits == {i \in DOMAIN dict : dict[i][1] = key}
    IN IF hits = {} THEN <<>> ELSE <<dict[CHOOSE i \in hits : TRUE][2]>>

DictKeys(dict) == [i \in DOMAIN dict |-> dict[i][1]]

\* dict[key] = value
DictPut(dict, key, value) ==
    LET hits == {i \in DOMAIN dict : dict[i][1] = key}
    IN IF hits = {} THEN Append(dict, <<key, value>>)
       ELSE [dict EXCEPT ![CHOOSE i \in hits : TRUE] = <<key, value>>]

\* Python's == on two dicts: the same keys with the same values, in any order
DictEq(a, b) == Range(a) = Range(b)

RECURSIVE Str(_)
\* str(n) of a non-negative int, as its decimal digits
Str(n) == IF n < 10 THEN <<n>> ELSE Append(Str(n \div 10), n % 10)

\* get_station_name: f"Station {station_id}"
StationName(station_id) == <<"Station ">> \o Str(station_id)

\* the stationID cells the hub scan counts: every row of every file that can
\* be opened, a cell that is not a number being passed over
StationCells(paths) ==
    {<<p, j>> \in UNION {{<<q, k>> : k \in DOMAIN FileAt(q).rows} : q \in paths} :
        CanOpen(p) /\ IsNumber(FileAt(p).rows[j], "stationID")}

StationOf(cell) == FileAt(cell[1]).rows[cell[2]].stationID

RECURSIVE SortHubs(_)
\* trading_hubs.sort(key=order_count, reverse=True): hubs with the same count
\* stay in the iteration order of the station-id set, which for the station
\* ids of the modelled market is ascending
SortHubs(hubs) ==
    IF hubs = {} THEN <<>>
    ELSE LET h == CHOOSE x \in hubs : \A y \in hubs :
                     \/ x.order_count > y.order_count
                     \/ x.order_count = y.order_count /\ x.id <= y.id
         IN <<h>> \o SortHubs(hubs \ {h})

\* the scan of get_trading_hubs over the log files
ExtractTradingHubs(paths) ==
    LET cells == StationCells(Range(paths))
    IN SortHubs({[ id              |-> s,
                   name            |-> StationName(s),
                   order_count     |-> Cardinality({c \in cells : StationOf(c) = s}),
                   solar_system_id |-> 0,
                   region_id       |-> 0 ] : s \in {StationOf(c) : c \in cells}})

RECURSIVE SortByPrice(_, _)
\* sorted(orders, key=price) for sign = 1 and sorted(..., reverse=True) for
\* sign = -1; both keep orders of equal price in their original order
SortByPrice(orders, sign) ==
    IF orders = <<>> THEN <<>>
    ELSE Only({InsertAt(init, 1 + Cardinality({i \in DOMAIN init :
                                   sign * init[i].price <= sign * last.price}), last) :
                 init \in {SortByPrice(SubSeq(orders, 1, Len(orders) - 1), sign)},
                 last \in {orders[Len(orders)]}})

RECURSIVE SumVolume(_)
SumVolume(orders) ==
    IF orders = <<>> THEN 0 ELSE Head(orders).volume_remaining + SumVolume(Tail(orders))

\* the number of orders an item summary keeps per side
TopN == 20

\* a summary that keeps every order
EveryOrder(orders) == orders

\* orders[:TopN]
TopOrders(orders) == SubSeq(orders, 1, IF Len(orders) < TopN THEN Len(orders) ELSE TopN)

IsBuy(o) == o.is_buy_order
IsSell(o) == ~o.is_buy_order

\* the summary _process_item_batch builds from the deduplicated orders of an item
SummaryOf(item_name, type_id, buy_orders, sell_orders) ==
    LET min_sell    == IF sell_orders # <<>> THEN Some(sell_orders[1].price) ELSE None
        max_buy     == IF buy_orders # <<>> THEN Some(buy_orders[1].price) ELSE None
        both        == /\ min_sell # None /\ min_sell[1] # 0
                       /\ max_buy # None /\ max_buy[1] # 0
    IN [ name       |-> item_name,
         type_id    |-> type_id,
         statistics |-> [ min_sell_price    |-> min_sell,
                          max_buy_price     |-> max_buy,
                          spread            |-> IF both THEN Some(min_sell[1] - max_buy[1])
                                                ELSE None,
                          sell_order_count  |-> Len(sell_orders),
                          buy_order_count   |-> Len(buy_orders),
                          total_sell_volume |-> SumVolume(sell_orders),
                          total_buy_volume  |-> SumVolume(buy_orders) ],
         buy_orders  |-> TopOrders(buy_orders),
         sell_orders |-> TopOrders(sell_orders) ]

\* _process_item_batch for one item: the orders are split by side and sorted
ItemSummary(item_name, type_id, orders) ==
    Only({SummaryOf(item_name, type_id, buy_orders, sell_orders) :
            buy_orders  \in {SortByPrice(SelectSeq(orders, IsBuy), -1)},
            sell_orders \in {SortByPrice(SelectSeq(orders, IsSell), 1)}})

----------------------------------------------------------------------------
(* MarketLogParser: the cache files (json.dump / json.load) *)

\* A cache file is kept as the JSON value its text denotes: a tag and, for
\* numbers, strings, arrays and objects, the payload.  An object is the
\* sequence of its <<key, value>> members.
JNull == [json |-> "null", v |-> <<>>]
JBool(b) == [json |-> IF b THEN "true" ELSE "false", v |-> <<>>]
JNum(n) == [json |-> "number", v |-> n]
JStr(s) == [json |-> "string", v |-> s]
JArr(values) == [json |-> "array", v |-> values]
JObj(members) == [json |-> "object", v |-> members]
\* a file whose text is not JSON (a write that was cut short)
JCorrupt == [json |-> "corrupt", v |-> <<>>]

JField(j, key) == DictGet(j.v, key)[1]

\* json.dump of an Optional number: None is written as null
DumpOptional(x) == IF x = None THEN JNull ELSE JNum(x[1])

\* a loader that reads null as 0 (the `or 0` idiom)
LoadOptionalOrZero(j) == IF j.json = "null" THEN Some(0) ELSE Some(j.v)

\* json.load of an Optional number: null is read as None
LoadOptional(j) == IF j.json = "null" THEN None ELSE Some(j.v)

DumpOrderOf(o) ==
    JObj(<< <<"price", JNum(o.price)>>,
            <<"volume_remaining", JNum(o.volume_remaining)>>,
            <<"type_id", JNum(o.type_id)>>,
            <<"order_id", JNum(o.order_id)>>,
            <<"is_buy_order", JBool(o.is_buy_order)>>,
            <<"issue_date", JStr(o.issue_date)>>,
            <<"station_id", JNum(o.station_id)>> >>)

DumpOrder(o0) == Only({DumpOrderOf(o) : o \in {o0}})

LoadOrderOf(j) ==
    [ price            |-> JField(j, "price").v,
      volume_remaining |-> JField(j, "volume_remaining").v,
      type_id          |-> JField(j, "type_id").v,
      order_id         |-> JField(j, "order_id").v,
      is_buy_order     |-> JField(j, "is_buy_order").json = "true",
      issue_date       |-> JField(j, "issue_date").v,
      station_id       |-> JField(j, "station_id").v ]

LoadOrder(j0) == Only({LoadOrderOf(j) : j \in {j0}})

DumpStatisticsOf(s) ==
    JObj(<< <<"min_sell_price", DumpOptional(s.min_sell_price)>>,
            <<"max_buy_price", DumpOptional(s.max_buy_price)>>,
            <<"spread", DumpOptional(s.spread)>>,
            <<"sell_order_count", JNum(s.sell_order_count)>>,
            <<"buy_order_count", JNum(s.buy_order_count)>>,
            <<"total_sell_volume", JNum(s.total_sell_volume)>>,
            <<"total_buy_volume", JNum(s.total_buy_volume)>> >>)

DumpStatistics(s0) == Only({DumpStatisticsOf(s) : s \in {s0}})

LoadStatisticsOf(j) ==
    [ min_sell_price    |-> LoadOptional(JField(j, "min_sell_price")),
      max_buy_price     |-> LoadOptional(JField(j, "max_buy_price")),
      spread            |-> LoadOptional(JField(j, "spread")),
      sell_order_count  |-> JField(j, "sell_order_count").v,
      buy_order_count   |-> JField(j, "buy_order_count").v,
      total_sell_volume |-> JField(j, "total_sell_volume").v,
      total_buy_volume  |-> JField(j, "total_buy_volume").v ]

LoadStatistics(j0) == Only({LoadStatisticsOf(j) : j \in {j0}})

DumpSummaryOf(s) ==
    JObj(<< <<"name", JStr(s.name)>>,
            <<"type_id", JNum(s.type_id)>>,
            <<"statistics", DumpStatistics(s.statistics)>>,
            <<"buy_orders", JArr([i \in DOMAIN s.buy_orders |-> DumpOrder(s.buy_orders[i])])>>,
            <<"sell_orders", JArr([i \in DOMAIN s.sell_orders |-> DumpOrder(s.sell_orders[i])])>> >>)

DumpSummary(s0) == Only({DumpSummaryOf(s) : s \in {s0}})

LoadSummaryOf(j) ==
    LET buy  == JField(j, "buy_orders").v
        sell == JField(j, "sell_orders").v
    IN [ name        |-> JField(j, "name").v,
         type_id     |-> JField(j, "type_id").v,
         statistics  |-> LoadStatistics(JField(j, "statistics")),
         buy_orders  |-> [i \in DOMAIN buy |-> LoadOrder(buy[i])],
         sell_orders |-> [i \in DOMAIN sell |-> LoadOrder(sell[i])] ]

LoadSummary(j0) == Only({LoadSummaryOf(j) : j \in {j0}})

DumpHubOf(h) ==
    JObj(<< <<"id", JNum(h.id)>>,
            <<"name", JStr(h.name)>>,
            <<"order_count", JNum(h.order_count)>>,
            <<"solar_system_id", JNum(h.solar_system_id)>>,
            <<"region_id", JNum(h.region_id)>> >>)

DumpHub(h0) == Only({DumpHubOf(h) : h \in {h0}})

LoadHubOf(j) ==
    [ id              |-> JField(j, "id").v,
      name            |-> JField(j, "name").v,
      order_count     |-> JField(j, "order_count").v,
      solar_system_id |-> JField(j, "solar_system_id").v,
      region_id       |-> JField(j, "region_id").v ]

LoadHub(j0) == Only({LoadHubOf(j) : j \in {j0}})

\* json.dump of a catalog document.  The generated_at stamp of the metadata
\* is the wall-clock time of the build and is left out of the model.
DumpCatalogOf(doc) ==
    JObj(<< <<"metadata", JObj(<< <<"item_count", JNum(doc.metadata.item_count)>>,
                                  <<"trading_hub_count",
                                    JNum(doc.metadata.trading_hub_count)>> >>)>>,
            <<"items", JObj([i \in DOMAIN doc.items |->
                               <<doc.items[i][1], DumpSummary(doc.items[i][2])>>])>>,
            <<"trading_hubs", JArr([i \in DOMAIN doc.trading_hubs |->
                                      DumpHub(doc.trading_hubs[i])])>> >>)

DumpCatalog(doc0) == Only({DumpCatalogOf(doc) : doc \in {doc0}})

\* json.load of a catalog file
LoadCatalogOf(j) ==
    LET meta  == JField(j, "metadata")
        items == JField(j, "items").v
        hubs  == JField(j, "trading_hubs").v
    IN [ metadata     |-> [ item_count        |-> JField(meta, "item_count").v,
                            trading_hub_count |-> JField(meta, "trading_hub_count").v ],
         items        |-> [i \in DOMAIN items |-> <<items[i][1], LoadSummary(items[i][2])>>],
         trading_hubs |-> [i \in DOMAIN hubs |-> LoadHub(hubs[i])] ]

LoadCatalog(j0) == Only({LoadCatalogOf(j) : j \in {j0}})

\* Python's == on two catalog documents
DocEq(a, b) ==
    /\ a.metadata = b.metadata
    /\ DictEq(a.items, b.items)
    /\ a.trading_hubs = b.trading_hubs

UnifiedName == "unified_market_data"

\* the cache directory after cache_parsed_data(data, cache_name); the parser
\* is constructed with a cache directory (market_service.py builds the only one)
CacheParsedData(dir, data, cache_name) ==
    [n \in DOMAIN dir \cup {cache_name} |->
        IF n = cache_name THEN DumpCatalog(data) ELSE dir[n]]

\* load_cached_data(cache_name) over a cache directory: None when the file is
\* missing or its text does not parse
LoadCachedDataFrom(dir, cache_name) ==
    IF cache_name \notin DOMAIN dir THEN None
    ELSE IF dir[cache_name].json # "object" THEN None
    ELSE Some(LoadCatalog(dir[cache_name]))

LoadCachedData(cache_name) == LoadCachedDataFrom(cacheDir, cache_name)

\* os.remove of a cache file
RemoveCache(dir, cache_name) == [n \in DOMAIN dir \ {cache_name} |-> dir[n]]

----------------------------------------------------------------------------
(* MarketLogParser: building the catalog *)

\* Log files are written once by an export and never change afterwards, so a
\* list held in _file_cache equals a fresh parse of its file.

\* the files an item list was built from
IndexedFiles(index, items) == UNION {Range(index[items[i].type_id]) : i \in DOMAIN items}

\* parse_all_logs past the cache test, on a parser whose index is index0 and
\* with no unified cache file: the items of get_available_items, the hubs of
\* get_trading_hubs and one summary per item from parse_logs_for_type_id,
\* which finds every item in the index
BuildCatalog(index0) ==
    LET acc   == AvailableItems([seen |-> {}, index |-> index0, items |-> <<>>], Glob)
        hubs  == ExtractTradingHubs(Glob)
        items == acc.items
    IN [ index |-> acc.index,
         files |-> IndexedFiles(acc.index, items),
         doc   |-> [ metadata     |-> [ item_count        |-> Len(items),
                                        trading_hub_count |-> Len(hubs) ],
                     items        |-> [i \in DOMAIN items |->
                                         <<Str(items[i].type_id),
                                           ItemSummary(items[i].name, items[i].type_id,
                                              DedupFiles(<<>>, acc.index[items[i].type_id],
                                                         items[i].type_id))>>],
                     trading_hubs |-> hubs ] ]

\* what parse_all_logs gives on a freshly constructed parser with no cache file
FreshCatalog == BuildCatalog([t \in TypeIds |-> <<>>]).doc

\* room in the index for one more get_available_items pass
IndexRoom == \A t \in TypeIds : Len(typeIdToFiles[t]) <= MaxFiles

ParseAllLogs ==
    LET cached == LoadCachedData(UnifiedName)
        hit    == cached # None
        built  == BuildCatalog(typeIdToFiles)
    IN /\ hit \/ IndexRoom
       /\ typeIdToFiles' = IF hit THEN typeIdToFiles ELSE built.index
       /\ fileCache' = IF hit THEN fileCache ELSE CacheAfter(built.files)
       /\ cacheDir' = IF hit THEN cacheDir
                      ELSE CacheParsedData(cacheDir, built.doc, UnifiedName)
       /\ parserCall' = [op |-> "parse_all_logs", arg |-> 0, dir_size |-> Len(logDir),
                         log_files |-> IF hit THEN <<>> ELSE Glob,
                         raised |-> FALSE,
                         result |-> IF hit THEN cached[1] ELSE built.doc]
       /\ UNCHANGED <<market, logDir, resolverVars, workerVars, serviceCall>>

GetTradingHubs ==
    LET cached == LoadCachedData(UnifiedName)
        hit    == cached # None /\ cached[1].trading_hubs # <<>>
        hubs   == ExtractTradingHubs(Glob)
    IN /\ cacheDir' = IF ~hit /\ cached # None
                      THEN CacheParsedData(cacheDir,
                              [cached[1] EXCEPT !.trading_hubs = hubs], UnifiedName)
                      ELSE cacheDir
       /\ parserCall' = [op |-> "get_trading_hubs", arg |-> 0, dir_size |-> Len(logDir),
                         log_files |-> IF hit THEN <<>> ELSE Glob,
                         raised |-> FALSE,
                         result |-> IF hit THEN cached[1].trading_hubs ELSE hubs]
       /\ UNCHANGED <<market, logDir, typeIdToFiles, fileCache, resolverVars, workerVars, serviceCall>>

ClearCacheAndReload ==
    LET built == BuildCatalog(typeIdToFiles)
        doc   == [built.doc EXCEPT !.trading_hubs = ExtractTradingHubs(Glob)]
    IN /\ IndexRoom
       /\ typeIdToFiles' = built.index
       /\ fileCache' = [p \in {q \in built.files : CanOpen(q)} |-> ParseRows(FileAt(p).rows)]
       /\ cacheDir' = CacheParsedData(cacheDir, doc, UnifiedName)
       /\ parserCall' = [op |-> "clear_cache_and_reload", arg |-> 0,
                         dir_size |-> Len(logDir), log_files |-> Glob,
                         raised |-> FALSE, result |-> doc]
       /\ UNCHANGED <<market, logDir, resolverVars, workerVars, serviceCall>>

\* the names save_cached_data is called with
CacheNames == {"snapshot"}

\* save_cached_data(data, cache_name), an alias of cache_parsed_data, with the
\* catalog of the current log directory as data
SaveCachedData(cache_name) ==
    /\ cacheDir' = CacheParsedData(cacheDir, FreshCatalog, cache_name)
    /\ parserCall' = [op |-> "save_cached_data", arg |-> cache_name,
                      dir_size |-> Len(logDir), log_files |-> <<>>,
                      raised |-> FALSE, result |-> FreshCatalog]
    /\ UNCHANGED <<market, logDir, typeIdToFiles, fileCache, resolverVars, workerVars, serviceCall>>

----------------------------------------------------------------------------
(* Properties of the deduplication *)

\* the day an issueDate column denotes
IssueDay(issue_date) == issue_date[1] * 10 + issue_date[2]

\* the order records of the given files, restricted to type_id (0: every type)
RecordsIn(paths, type_id) ==
    {o \in UNION {Range(ParseRows(FileAt(p).rows)) : p \in paths} :
        type_id = 0 \/ o.type_id = type_id}

\* result holds exactly one record for the order of candidate o, one of the
\* candidates, and no candidate for that order was issued later
KeepsLatest(result, candidates) ==
    \A o \in candidates :
       LET kept == {i \in DOMAIN result : result[i].order_id = o.order_id}
       IN /\ Cardinality(kept) = 1
          /\ \A i \in kept : /\ result[i] \in candidates
                             /\ IssueDay(result[i].issue_date) >= IssueDay(o.issue_date)

DedupCall == parserCall.op \in {"parse_logs_for_type_id", "parse_logs_for_item"}
DedupType == IF parserCall.op = "parse_logs_for_type_id" THEN parserCall.arg ELSE 0

\* C1: after parse_logs_for_type_id or parse_logs_for_item, for every order id
\* found in the files selected for the call the result holds exactly one
\* record, and it is the record with the latest issue date, in whatever order
\* the files were listed.
LatestWins ==
    DedupCall =>
       KeepsLatest(parserCall.result, RecordsIn(Range(parserCall.log_files), DedupType))

\* C1 witness: a call over two files that hold the same order with different
\* issue dates, the newer snapshot scanned first
LatestWinsWitness ==
    /\ parserCall.op = "parse_logs_for_type_id"
    /\ Len(parserCall.log_files) = 2
    /\ \E a \in Range(ParseLogFile(parserCall.log_files[1])),
          b \in Range(ParseLogFile(parserCall.log_files[2])) :
          /\ a.order_id = b.order_id
          /\ a.type_id = parserCall.arg
          /\ IssueDay(a.issue_date) > IssueDay(b.issue_date)
          /\ a \in Range(parserCall.result)

Permuted(s, perm) == [i \in DOMAIN s |-> s[perm[i]]]

\* C2: the set of records obtained from the files of a parse_logs_for_type_id
\* call is the same for every order in which those files are scanned.
ScanOrderIndependent ==
    parserCall.op = "parse_logs_for_type_id" =>
       \A perm \in Perms(Len(parserCall.log_files)) :
          Range(DedupFiles(<<>>, Permuted(parserCall.log_files, perm), parserCall.arg))
             = Range(parserCall.result)

\* the files in the directory at the time of the last call
ListedAtCall == {f.path : f \in {g \in Range(logDir) : g.path <= parserCall.dir_size}}

\* C3: parse_logs_for_type_id(t) returns, for every order of t held by any
\* file of the directory, exactly one record and the newest one, whether the
\* files come from the fallback scan or from the index.
CoversEveryFile ==
    parserCall.op = "parse_logs_for_type_id" =>
       KeepsLatest(parserCall.result, RecordsIn(ListedAtCall, parserCall.arg))

----------------------------------------------------------------------------
(* The resolver's idle state *)

NoRequest == [item_id |-> 0, quantity |-> 0, me_level |-> 0, te_level |-> 0,
              facility_bonus |-> FloatZero, max_depth |-> 0]
NotCalled == [done |-> FALSE, node |-> <<>>, raised |-> FALSE]
NoService == [op |-> "none", arg |-> 0, result |-> <<>>]

\* no DataLoader has been created; before is the catalog in memory and on
\* disk when the run began
NoLoader ==
    [ pc |-> "none", is_running |-> FALSE, should_cancel |-> FALSE, signals |-> <<>>,
      doc |-> <<>>, before |-> [memory |-> <<>>, file |-> <<>>], cancelled_at |-> "none" ]
NoTab == [pc |-> "idle", reloads |-> 0]
\* seen is what the caller's load_cached_data returned, run the reload it
\* was read under (0: none was rebuilding)
NoCaller == [pc |-> "idle", calls |-> 0, seen |-> <<>>, run |-> 0, doc |-> <<>>]

WorkersIdle ==
    /\ loader = NoLoader
    /\ tab = NoTab
    /\ caller = NoCaller
    /\ memory = <<>>

----------------------------------------------------------------------------
(* The parser specification *)

InitParser ==
    /\ market = [o \in OrderIds |-> FirstIssue]
    /\ logDir = <<>>
    /\ typeIdToFiles = [t \in TypeIds |-> <<>>]
    /\ fileCache = <<>>
    /\ parserCall = NoCall
    /\ itemTable = {}
    /\ blueprints = <<>>
    /\ marketData = <<>>
    /\ marketHistory = <<>>
    /\ marketStats = <<>>
    /\ cacheDir = <<>>
    /\ serviceCall = NoService
    /\ request = NoRequest
    /\ chain = NotCalled
    /\ WorkersIdle

NextParser ==
    \/ \E o \in ActiveOrders : Reissue(o)
    \/ \E o \in ActiveOrders : Fill(o)
    \/ \E t \in TypeIds : ExportLog(t)
    \/ GetAvailableItems
    \/ \E t \in TypeIds : ParseLogsForTypeId(t)
    \/ \E n \in ItemNames : ParseLogsForItem(n)
    \/ ClearCache

SpecParser == InitParser /\ [][NextParser]_vars

----------------------------------------------------------------------------
(* The catalog specification: the parser with its cache directory *)

NextCatalog ==
    \/ \E o \in ActiveOrders : Reissue(o)
    \/ \E t \in TypeIds : ExportLog(t)
    \/ \E t \in TypeIds : ParseLogsForTypeId(t)
    \/ ParseAllLogs
    \/ GetTradingHubs
    \/ ClearCacheAndReload
    \/ \E n \in CacheNames : SaveCachedData(n)

SpecCatalog == InitParser /\ [][NextCatalog]_vars

\* the unified catalog document held by the cache directory, if any
StoredCatalog == LoadCachedData(UnifiedName)

\* the step is a call of the parser operation op
Calls(op) ==
    /\ parserCall'.op = op
    /\ parserCall'.op # parserCall.op \/ parserCall' # parserCall

\* C11: once a unified catalog document is stored in the cache, no step other
\* than clear_cache_and_reload changes the stored document, and every
\* parse_all_logs call returns exactly that document and reads no log file.
StoredCatalogKept ==
    [][ StoredCatalog # None /\ ~Calls("clear_cache_and_reload") =>
           /\ LoadCachedDataFrom(cacheDir', UnifiedName) = StoredCatalog
           /\ Calls("parse_all_logs") =>
                 /\ parserCall'.result = StoredCatalog[1]
                 /\ parserCall'.log_files = <<>> ]_vars

\* C12: clear_cache_and_reload returns, and stores on disk, the catalog that
\* parse_all_logs produces on a freshly constructed parser with an empty cache
\* over the current log directory, whatever the parser did before.
ReloadFromScratch ==
    parserCall.op = "clear_cache_and_reload" /\ parserCall.dir_size = Len(logDir) =>
       /\ DocEq(parserCall.result, FreshCatalog)
       /\ StoredCatalog # None
       /\ DocEq(StoredCatalog[1], FreshCatalog)

\* The cache specification: the exports and the saving of their catalog
NextCache ==
    \/ \E o \in ActiveOrders : Reissue(o)
    \/ \E o \in ActiveOrders : Fill(o)
    \/ \E t \in TypeIds : ExportLog(t)
    \/ \E n \in CacheNames : SaveCachedData(n)

SpecCache == InitParser /\ [][NextCache]_vars

----------------------------------------------------------------------------
(* Decimal amounts, as exact fractions in lowest terms *)

RECURSIVE GCD(_, _)
GCD(a, b) == IF b = 0 THEN a ELSE GCD(b, a % b)

Rat(n, d) == LET g == GCD(n, d) IN [n |-> n \div g, d |-> d \div g]
RatOfInt(k) == [n |-> k, d |-> 1]
RatAdd(x, y) == Rat(x.n * y.d + y.n * x.d, x.d * y.d)
RatMulInt(x, k) == Rat(x.n * k, x.d)
RatDivInt(x, k) == Rat(x.n, x.d * k)
RatIsZero(x) == x.n = 0

----------------------------------------------------------------------------
(* MarketService: the price sources *)

\* the rows of the market_data table for an item
TableRows(item_id) == IF item_id \in DOMAIN marketData THEN marketData[item_id] ELSE <<>>

\* _get_market_history: the market_history rows of the item since the cutoff
History(item_id) == IF item_id \in DOMAIN marketHistory THEN marketHistory[item_id] ELSE <<>>

HasBuyPrice(row) == row.buy_price # None
HasSellPrice(row) == row.sell_price # None

\* _load_unified_market_data on a new MarketService: the cached catalog, else
\* the catalog its own, new parser builds by parse_all_logs (a sequence of
\* length one: the load does not fail in the model)
UnifiedMarketData ==
    IF UnifiedName \in DOMAIN cacheDir /\ cacheDir[UnifiedName].json = "object"
    THEN LoadCachedData(UnifiedName) ELSE Some(FreshCatalog)

\* the cache directory after _load_unified_market_data: parse_all_logs stores
\* the catalog it had to build
CacheAfterLoad ==
    IF UnifiedName \in DOMAIN cacheDir /\ cacheDir[UnifiedName].json = "object" THEN cacheDir
    ELSE CacheParsedData(cacheDir, FreshCatalog, UnifiedName)

\* the MarketData objects get_market_data makes of the catalog's orders
BuyRowOf(order) == [buy_price |-> Some(order.price), sell_price |-> None]
SellRowOf(order) == [buy_price |-> None, sell_price |-> Some(order.price)]

\* get_market_data(item_id, order_type): the table rows that carry the price
\* asked for if there are any, else the orders of the item in the unified
\* catalog.  rows are the item's table rows, item_data its optional catalog
\* entry.  The limit (100 rows) lies above every list of the model.
GetMarketData(rows, order_type, item_data) ==
    LET db == IF order_type = "buy" THEN SelectSeq(rows, HasBuyPrice)
              ELSE SelectSeq(rows, HasSellPrice)
    IN IF db # <<>> THEN db
       ELSE IF item_data = None THEN <<>>
       ELSE IF order_type = "buy"
            THEN [i \in DOMAIN item_data[1].buy_orders |-> BuyRowOf(item_data[1].buy_orders[i])]
       ELSE [i \in DOMAIN item_data[1].sell_orders |-> SellRowOf(item_data[1].sell_orders[i])]

\* get_market_data reads the unified catalog
MarketDataLoads(item_id, order_type) ==
    IF order_type = "buy" THEN SelectSeq(TableRows(item_id), HasBuyPrice) = <<>>
    ELSE SelectSeq(TableRows(item_id), HasSellPrice) = <<>>

\* the statistics returned when an exception is caught
ZeroStatistics ==
    [min_sell_price |-> 0, max_buy_price |-> 0, sell_price |-> 0, buy_price |-> 0]

\* `x or 0` on an Optional number
OrZero(x) == IF x = None THEN 0 ELSE x[1]

\* a default that marks a missing buy price with -1
DefaultPriceUnknown(order_type) == IF order_type = "buy" THEN -1 ELSE 0

\* the price taken when get_market_data returned no row: Decimal("0")
DefaultPrice(order_type) == 0

\* the truthy prices of the rows
TruthySellPrices(orders) ==
    {orders[i].sell_price[1] : i \in {j \in DOMAIN orders : OrZero(orders[j].sell_price) # 0}}
TruthyBuyPrices(orders) ==
    {orders[i].buy_price[1] : i \in {j \in DOMAIN orders : OrZero(orders[j].buy_price) # 0}}

\* the statistics computed from the get_market_data rows: min() and max()
\* over an empty list of truthy prices raise, and so does the division of
\* the Decimal zero spread by a float min_sell when there is no positive
\* max_buy; every exception is caught and gives the all-zero statistics
ComputedStatistics(sell_orders, buy_orders) ==
    LET min_sell == IF sell_orders = <<>> THEN DefaultPrice("sell")
                    ELSE SetMin(TruthySellPrices(sell_orders))
        max_buy  == IF buy_orders = <<>> THEN DefaultPrice("buy")
                    ELSE SetMax(TruthyBuyPrices(buy_orders))
    IN IF sell_orders # <<>> /\ TruthySellPrices(sell_orders) = {} THEN ZeroStatistics
       ELSE IF buy_orders # <<>> /\ TruthyBuyPrices(buy_orders) = {} THEN ZeroStatistics
       ELSE IF min_sell > 0 /\ ~(max_buy > 0) THEN ZeroStatistics
       ELSE [ min_sell_price |-> min_sell, max_buy_price |-> max_buy,
              sell_price     |-> min_sell, buy_price     |-> max_buy ]

\* the statistics taken from the catalog entry of the item
CatalogStatisticsOf(stats) ==
    [ min_sell_price |-> OrZero(stats.min_sell_price),
      max_buy_price  |-> OrZero(stats.max_buy_price),
      sell_price     |-> OrZero(stats.min_sell_price),
      buy_price      |-> OrZero(stats.max_buy_price) ]

\* get_market_statistics past its queries: rows are the item's table rows,
\* history its history rows, item_data its optional entry in the unified
\* catalog.  With no history rows and the item in the catalog the catalog's
\* statistics are returned, else the computed ones.
StatisticsFrom(rows, history, item_data) ==
    IF history = <<>> /\ item_data # None
    THEN CatalogStatisticsOf(item_data[1].statistics)
    ELSE Only({ComputedStatistics(sell_orders, buy_orders) :
                 sell_orders \in {GetMarketData(rows, "sell", item_data)},
                 buy_orders  \in {GetMarketData(rows, "buy", item_data)}})

\* get_market_statistics(item_id, days=1) on a new MarketService
GetMarketStatistics(item_id) ==
    Only({StatisticsFrom(TableRows(item_id), History(item_id),
                         DictGet(unified.items, Str(item_id))) :
            unified \in {UnifiedMarketData[1]}})

\* get_market_statistics reads the unified catalog
StatisticsLoad(item_id) ==
    \/ MarketDataLoads(item_id, "sell")
    \/ MarketDataLoads(item_id, "buy")
    \/ History(item_id) = <<>>

\* one call of get_market_statistics on a new MarketService
GetMarketStatisticsCall(item_id) ==
    /\ serviceCall' = [op |-> "get_market_statistics", arg |-> item_id,
                       result |-> GetMarketStatistics(item_id)]
    /\ cacheDir' = IF StatisticsLoad(item_id) THEN CacheAfterLoad ELSE cacheDir
    /\ UNCHANGED <<parserVars, resolverVars, workerVars>>

\* what get_market_statistics returns for every item that has a price table
StatisticsTable == [i \in DOMAIN marketData |-> GetMarketStatistics(i)]

\* the prices the resolver reads: get_market_statistics(item_id, days=1)
BuyPrice(item_id) == marketStats[item_id].buy_price
SellPrice(item_id) == marketStats[item_id].sell_price

----------------------------------------------------------------------------
(* ProductionService: the catalog lookups *)

\* db.query(Item).filter(Item.id == item_id).first()
ItemKnown(item_id) == item_id \in itemTable

\* _find_manufacturing_blueprint: the first blueprint, in row order, that has a
\* product row for the item; the activity of the product row is not looked at
FindManufacturingBlueprint(product_id) ==
    LET hits == {i \in DOMAIN blueprints : blueprints[i].product_id = product_id}
    IN IF hits = {} THEN None
       ELSE Some(blueprints[CHOOSE i \in hits : \A j \in hits : i <= j])

\* _get_manufacturing_activity: the blueprint's activity named "manufacturing"
GetManufacturingActivity(blueprint) ==
    IF "manufacturing" \in blueprint.activities
    THEN Some([activity_name |-> "manufacturing", time |-> blueprint.time])
    ELSE None

\* _get_blueprint_materials: every material row of the blueprint
GetBlueprintMaterials(blueprint) == blueprint.materials

----------------------------------------------------------------------------
(* Python floats: binary64 numbers that are not negative, kept as n * 2^e with
   n a natural number of at most 53 bits that is odd or zero.  n is a
   sequence of 14-bit limbs, least significant first.  All values of the
   model lie far inside the exponent range of binary64. *)

LimbBits == 14
LimbBase == 16384
MantissaBits == 53

Pow2(k) == 2^k

RECURSIVE BitLen(_)
BitLen(k) == IF k = 0 THEN 0 ELSE 1 + BitLen(k \div 2)

RECURSIVE LowBit(_)
\* the number of trailing zero bits of k > 0
LowBit(k) == IF k % 2 = 1 THEN 0 ELSE 1 + LowBit(k \div 2)

RECURSIVE NatOfInt(_)
NatOfInt(k) == IF k = 0 THEN <<>> ELSE <<k % LimbBase>> \o NatOfInt(k \div LimbBase)

RECURSIVE NatTrim(_)
NatTrim(a) ==
    IF a = <<>> THEN <<>>
    ELSE IF a[Len(a)] = 0 THEN NatTrim(SubSeq(a, 1, Len(a) - 1))
    ELSE a

LimbAt(a, i) == IF i \in DOMAIN a THEN a[i] ELSE 0
Rest(a) == IF a = <<>> THEN <<>> ELSE Tail(a)

RECURSIVE NatAdd(_, _, _)
NatAdd(a, b, carry) ==
    IF a = <<>> /\ b = <<>> THEN (IF carry = 0 THEN <<>> ELSE <<carry>>)
    ELSE <<(LimbAt(a, 1) + LimbAt(b, 1) + carry) % LimbBase>>
         \o NatAdd(Rest(a), Rest(b), (LimbAt(a, 1) + LimbAt(b, 1) + carry) \div LimbBase)

RECURSIVE NatSubLimbs(_, _, _)
NatSubLimbs(a, b, borrow) ==
    IF a = <<>> THEN <<>>
    ELSE <<(LimbBase + a[1] - LimbAt(b, 1) - borrow) % LimbBase>>
         \o NatSubLimbs(Tail(a), Rest(b), IF a[1] - LimbAt(b, 1) - borrow < 0 THEN 1 ELSE 0)

\* a - b for a >= b
NatSub(a, b) == NatTrim(NatSubLimbs(a, b, 0))

RECURSIVE NatCmpFrom(_, _, _)
NatCmpFrom(a, b, i) ==
    IF i = 0 THEN 0
    ELSE IF a[i] # b[i] THEN (IF a[i] < b[i] THEN -1 ELSE 1)
    ELSE NatCmpFrom(a, b, i - 1)

\* -1, 0 or 1 as a is below, equal to or above b
NatCmp(a, b) ==
    IF Len(a) # Len(b) THEN (IF Len(a) < Len(b) THEN -1 ELSE 1)
    ELSE NatCmpFrom(a, b, Len(a))

RECURSIVE NatMulLimb(_, _, _)
\* a * k + carry for one limb k
NatMulLimb(a, k, carry) ==
    IF a = <<>> THEN (IF carry = 0 THEN <<>> ELSE <<carry>>)
    ELSE <<(a[1] * k + carry) % LimbBase>>
         \o NatMulLimb(Tail(a), k, (a[1] * k + carry) \div LimbBase)

RECURSIVE NatMul(_, _)
NatMul(a, b) ==
    IF a = <<>> \/ b = <<>> THEN <<>>
    ELSE NatTrim(NatAdd(NatMulLimb(a, b[1], 0), <<0>> \o NatMul(a, Tail(b)), 0))

\* a * 2^k
NatShl(a, k) ==
    IF a = <<>> THEN <<>>
    ELSE [i \in 1..(k \div LimbBits) |-> 0] \o NatMulLimb(a, Pow2(k % LimbBits), 0)

\* a \div 2^k, for the limbs above the k \div LimbBits lowest and the bits left
ShiftDown(rest, r) ==
    NatTrim([i \in DOMAIN rest |->
               (rest[i] \div Pow2(r)) + (LimbAt(rest, i + 1) % Pow2(r)) * Pow2(LimbBits - r)])
NatShr(a, k) == ShiftDown(SubSeq(a, (k \div LimbBits) + 1, Len(a)), k % LimbBits)

\* a % 2^k
NatLow(a, k) ==
    NatTrim([i \in {j \in DOMAIN a : j <= (k \div LimbBits) + 1} |->
               IF i <= k \div LimbBits THEN a[i] ELSE a[i] % Pow2(k % LimbBits)])

NatBitLen(a) == IF a = <<>> THEN 0 ELSE LimbBits * (Len(a) - 1) + BitLen(a[Len(a)])

RECURSIVE NatLowBit(_)
\* the number of trailing zero bits of a > 0
NatLowBit(a) == IF a[1] = 0 THEN LimbBits + NatLowBit(Tail(a)) ELSE LowBit(a[1])

RECURSIVE NatDivRem(_, _)
\* quotient and remainder of a by a small q
NatDivRem(a, q) ==
    IF a = <<>> THEN [quot |-> <<>>, rem |-> 0]
    ELSE Only({[ quot |-> <<(hi.rem * LimbBase + a[1]) \div q>> \o hi.quot,
                 rem  |-> (hi.rem * LimbBase + a[1]) % q ] :
                 hi \in {NatDivRem(Tail(a), q)}})

\* n * 2^e with n made odd
Canonical(n, e) ==
    IF n = <<>> THEN FloatZero
    ELSE IF n[1] % 2 = 1 THEN [n |-> n, e |-> e]
    ELSE [n |-> NatShr(n, NatLowBit(n)), e |-> e + NatLowBit(n)]

\* n * 2^e without its d lowest bits, rounded to nearest, ties to even
RoundOff(n, e, d) ==
    Only({Canonical(IF c > 0 \/ (c = 0 /\ q[1] % 2 = 1) THEN NatAdd(q, <<1>>, 0) ELSE q,
                    e + d) :
            q \in {NatShr(n, d)},
            c \in {NatCmp(NatLow(n, d), NatShl(<<1>>, d - 1))}})

\* the binary64 nearest to n * 2^e
RoundToFloat(n, e) ==
    IF NatBitLen(n) <= MantissaBits THEN Canonical(n, e)
    ELSE RoundOff(n, e, NatBitLen(n) - MantissaBits)

\* float(k) of an int below 2^31: exact
FloatOfInt(k) == Canonical(NatOfInt(k), 0)

\* the float a decimal literal p/q denotes: the quotient to 70 binary places
\* with a sticky bit for the remainder, rounded
FloatOfRatio(p, q) ==
    Only({IF dr.rem = 0 THEN RoundToFloat(NatTrim(dr.quot), -70)
          ELSE RoundToFloat(NatAdd(NatShl(NatTrim(dr.quot), 1), <<1>>, 0), -71) :
            dr \in {NatDivRem(NatShl(NatOfInt(p), 70), q)}})

FloatOne == [n |-> <<1>>, e |-> 0]

\* x * y; a product with zero or with a power of two needs no rounding
FloatMul(x, y) ==
    IF y.n = <<>> \/ x.n = <<>> THEN FloatZero
    ELSE IF y.n = <<1>> THEN [n |-> x.n, e |-> x.e + y.e]
    ELSE RoundToFloat(NatMul(x.n, y.n), x.e + y.e)

\* the numerator of x over 2^e, for e <= x.e
Scaled(x, e) == NatShl(x.n, x.e - e)
LowerExponent(x, y) == IF x.e < y.e THEN x.e ELSE y.e

\* x < y
FloatLess(x, y) ==
    IF y.n = <<>> THEN FALSE
    ELSE IF x.n = <<>> THEN TRUE
    ELSE NatCmp(Scaled(x, LowerExponent(x, y)), Scaled(y, LowerExponent(x, y))) < 0

\* min(x, y): the first argument unless the second is smaller
FloatMin(x, y) == IF FloatLess(y, x) THEN y ELSE x

\* x - y for x >= y
FloatSub(x, y) ==
    IF y.n = <<>> THEN x
    ELSE RoundToFloat(NatSub(Scaled(x, LowerExponent(x, y)), Scaled(y, LowerExponent(x, y))),
                      LowerExponent(x, y))

----------------------------------------------------------------------------
(* ProductionService.get_manufacturing_details *)

\* blueprint_id = None and time_required = None of a market-priced node
NoBlueprint == 0
NoTime == -1

\* a stop test that lets max_depth = 0 through
DepthExhaustedBelowZero(max_depth) == max_depth < 0

\* the stop test: no recursion once max_depth is used up
DepthExhausted(max_depth) == max_depth <= 0

\* a recursion that hands max_depth down unchanged
ChildDepthSame(max_depth) == max_depth

\* the depth handed to the expansion of a material
ChildDepth(max_depth) == max_depth - 1

\* a resolver that forgets to add the current item
ProcessedWithout(processed_items, item_id) == processed_items

\* processed_items after the current item has been added
ProcessedWith(processed_items, item_id) == processed_items \cup {item_id}

\* max(0.9, 1.0 - 0.02 * me_level), in percent
EfficiencyPercent(me_level) ==
    IF 100 - 2 * me_level > 90 THEN 100 - 2 * me_level ELSE 90

\* int(material.quantity * efficiency_factor) when me_level > 0.  The float
\* product truncates to the exact floor for every base quantity below 2000
\* and every me_level in 1..10.
AdjustedQuantity(base_quantity, me_level) ==
    IF me_level > 0 THEN (base_quantity * EfficiencyPercent(me_level)) \div 100
    ELSE base_quantity

\* total_quantity = adjusted_quantity * quantity
TotalQuantity(base_quantity, me_level, quantity) ==
    AdjustedQuantity(base_quantity, me_level) * quantity

\* the literals 0.2 and 0.8
TeStep == FloatOfRatio(2, 10)
TeCap == FloatOfRatio(8, 10)

\* 1 - min(0.2 * te_level, 0.8)
TimeFactor(te_level) ==
    FloatSub(FloatOne, FloatMin(FloatMul(TeStep, FloatOfInt(te_level)), TeCap))

\* base_time * (1 - min(0.2 * te_level, 0.8)) * (1 - facility_bonus), a float;
\* facility_bonus is a float between 0.0 and 1.0
AdjustedTime(base_time, te_level, facility_bonus) ==
    FloatMul(FloatMul(FloatOfInt(base_time), TimeFactor(te_level)),
             FloatSub(FloatOne, facility_bonus))

\* the node returned when there is no blueprint or the depth is used up
MarketNode(item_id, quantity) ==
    [ item_id         |-> item_id,
      quantity        |-> quantity,
      blueprint_id    |-> NoBlueprint,
      materials       |-> <<>>,
      buy_price       |-> BuyPrice(item_id),
      sell_price      |-> SellPrice(item_id),
      production_cost |-> RatOfInt(BuyPrice(item_id)),
      time_required   |-> NoTime ]

\* material_node.production_cost or material_node.buy_price or Decimal('0')
MaterialCost(material_node) ==
    IF ~RatIsZero(material_node.production_cost) THEN material_node.production_cost
    ELSE RatOfInt(material_node.buy_price)

RECURSIVE SumMaterialCosts(_)
\* the loop that adds material_cost * Decimal(material_node.quantity)
SumMaterialCosts(materials_nodes) ==
    IF materials_nodes = <<>> THEN RatOfInt(0)
    ELSE RatAdd(RatMulInt(MaterialCost(Head(materials_nodes)), Head(materials_nodes).quantity),
                SumMaterialCosts(Tail(materials_nodes)))

\* production_cost before the division by the quantity
TotalProductionCost(materials_nodes, buy_price, quantity) ==
    IF materials_nodes # <<>> THEN SumMaterialCosts(materials_nodes)
    ELSE RatOfInt(buy_price * quantity)

\* production_cost / Decimal(quantity) if quantity > 0 else Decimal('0')
CostPerUnit(production_cost, quantity) ==
    IF quantity > 0 THEN RatDivInt(production_cost, quantity) ELSE RatOfInt(0)

\* get_manufacturing_details raises for its arguments: the function tests
\* neither quantity nor max_depth and has no raise statement
InputRejected(quantity, max_depth) == FALSE

\* a resolver whose material loop keeps the items a material's expansion has
\* visited in the set it hands to the next material
SharedAcrossSiblings(processed_items, visited) == processed_items \cup visited

\* processed_items of the material loop after a material has been expanded:
\* the expansion was given list(processed_items), a copy, and builds its own
\* set from it, so what it visits does not reach the caller's set
AfterSibling(processed_items, visited) == processed_items

RECURSIVE ItemsOf(_)
\* the items of the nodes of an optional tree
ItemsOf(node) ==
    IF node = <<>> THEN {}
    ELSE {node[1].item_id} \cup UNION {ItemsOf(<<node[1].materials[i]>>) : i \in DOMAIN node[1].materials}

RECURSIVE GetManufacturingDetails(_, _, _, _, _, _, _)
RECURSIVE MaterialNodes(_, _, _, _, _, _, _)

\* the loop over the materials: each material that is not in processed_items
\* is resolved recursively; a None result is left out
MaterialNodes(materials, quantity, me_level, te_level, facility_bonus, max_depth, processed_items) ==
    IF materials = <<>> THEN <<>>
    ELSE LET material == Head(materials)
             total_quantity == TotalQuantity(material.quantity, me_level, quantity)
             material_node ==
                 IF material.material_id \notin processed_items
                 THEN GetManufacturingDetails(material.material_id, total_quantity,
                                              me_level, te_level, facility_bonus,
                                              ChildDepth(max_depth), processed_items)
                 ELSE None
         IN material_node \o MaterialNodes(Tail(materials), quantity, me_level, te_level,
                                           facility_bonus, max_depth,
                                           AfterSibling(processed_items, ItemsOf(material_node)))

GetManufacturingDetails(item_id, quantity, me_level, te_level, facility_bonus, max_depth, ignore_items) ==
    IF ~ItemKnown(item_id) THEN None
    ELSE
      LET found == FindManufacturingBlueprint(item_id)
      IN IF found = None \/ DepthExhausted(max_depth)
         THEN Some(MarketNode(item_id, quantity))
         ELSE
           LET blueprint == found[1]
               activity  == GetManufacturingActivity(blueprint)
           IN IF activity = None THEN None
              ELSE
                LET materials_nodes ==
                        IF max_depth > 0 /\ item_id \notin ignore_items
                        THEN MaterialNodes(GetBlueprintMaterials(blueprint), quantity,
                                           me_level, te_level, facility_bonus, max_depth,
                                           ProcessedWith(ignore_items, item_id))
                        ELSE <<>>
                    production_cost ==
                        TotalProductionCost(materials_nodes, BuyPrice(item_id), quantity)
                IN Some([ item_id         |-> item_id,
                          quantity        |-> quantity,
                          blueprint_id    |-> blueprint.id,
                          materials       |-> materials_nodes,
                          buy_price       |-> BuyPrice(item_id),
                          sell_price      |-> SellPrice(item_id),
                          production_cost |-> CostPerUnit(production_cost, quantity),
                          time_required   |-> AdjustedTime(activity[1].time, te_level,
                                                           facility_bonus) ])

----------------------------------------------------------------------------
(* The catalogs and requests the resolver is run on *)

\* deepest max_depth requested
MaxDepth == 2
\* the numbers of material rows a blueprint may have
MaterialCounts == {0, 1, 2}

KnownItems == {1, 2, 3}
\* the ids the items table does not hold
UnknownItems == {4}
\* the items that may have a blueprint; blueprint 100 + i makes item i
Manufacturable == {1, 2}
BaseQuantities == {1, 2}
RequestQuantities == {1, 3}
MeLevels == {0, 1, 10}
Prices == {0, 10}

MaterialRows == [material_id : KnownItems, quantity : BaseQuantities]

MaterialLists ==
    UNION {[1..k -> MaterialRows] : k \in MaterialCounts}

BlueprintsFor(i) ==
    [ id : {100 + i}, product_id : {i},
      activities : {{"manufacturing", "copying"}, {"copying"}},
      time : {600}, materials : MaterialLists ]

\* one table for every choice of at most one blueprint per manufacturable item
RECURSIVE BlueprintTables(_)
BlueprintTables(products) ==
    IF products = <<>> THEN {<<>>}
    ELSE LET rest == BlueprintTables(Tail(products))
         IN rest \cup {<<b>> \o t : b \in BlueprintsFor(Head(products)), t \in rest}

\* requests for item 1 with every option, and plain requests for the unknown item
Requests ==
    {r \in [ item_id : {1} \cup UnknownItems, quantity : RequestQuantities,
             me_level : MeLevels, te_level : {0}, facility_bonus : {FloatZero},
             max_depth : 0..MaxDepth ] :
        r.item_id \in UnknownItems => (r.quantity = 1 /\ r.me_level = 0)}

----------------------------------------------------------------------------
(* The resolver specification *)

\* one row of the market_data table and one of the market_history table
TableRow(buy_price, sell_price) == [buy_price |-> buy_price, sell_price |-> sell_price]
HistoryRow == [average_price |-> 11, volume |-> 5]

\* The price tables do not change while a chain is resolved, so marketStats
\* holds the statistics the service returns for them.
InitResolver ==
    /\ market = [o \in OrderIds |-> FirstIssue]
    /\ logDir = <<>>
    /\ typeIdToFiles = [t \in TypeIds |-> <<>>]
    /\ fileCache = <<>>
    /\ parserCall = NoCall
    /\ cacheDir = <<>>
    /\ serviceCall = NoService
    /\ itemTable = KnownItems
    /\ marketData \in [KnownItems -> {<<TableRow(Some(b), Some(12))>> : b \in Prices}]
    /\ marketHistory = [i \in KnownItems |-> <<HistoryRow>>]
    /\ marketStats = StatisticsTable
    /\ blueprints \in BlueprintTables(SetToSeq(Manufacturable))
    /\ request \in Requests
    /\ chain = NotCalled
    /\ WorkersIdle

RECURSIVE PricedItems(_)
\* the items get_manufacturing_details asked the market service about: one
\* per node it built
PricedItems(node) ==
    {node.item_id} \cup UNION {PricedItems(node.materials[i]) : i \in DOMAIN node.materials}

\* the cache directory after the market-service calls made for a chain
CacheAfterPricing(node) ==
    IF node # None /\ \E i \in PricedItems(node[1]) : StatisticsLoad(i)
    THEN CacheAfterLoad ELSE cacheDir

\* one call of get_manufacturing_details by a caller (no ignore_items passed)
Resolve ==
    LET node == GetManufacturingDetails(request.item_id, request.quantity,
                    request.me_level, request.te_level,
                    request.facility_bonus, request.max_depth, {})
    IN /\ ~chain.done
       /\ chain' = [done |-> TRUE, node |-> node,
                     raised |-> InputRejected(request.quantity, request.max_depth)]
       /\ cacheDir' = CacheAfterPricing(node)
       /\ UNCHANGED <<itemTable, blueprints, marketData, marketHistory, marketStats,
                      request, serviceCall, parserVars, workerVars>>

NextResolver == Resolve

SpecResolver == InitResolver /\ [][NextResolver]_vars

----------------------------------------------------------------------------
(* Properties of the production chain *)

RECURSIVE Depth(_)
\* the number of levels below a node
Depth(node) ==
    IF node.materials = <<>> THEN 0
    ELSE 1 + SetMax({Depth(node.materials[i]) : i \in DOMAIN node.materials})

RECURSIVE Nodes(_)
\* the nodes of a tree
Nodes(node) ==
    {node} \cup UNION {Nodes(node.materials[i]) : i \in DOMAIN node.materials}

RECURSIVE NodeCount(_)
NodeCount(node) ==
    IF node.materials = <<>> THEN 1
    ELSE LET counts == [i \in DOMAIN node.materials |-> NodeCount(node.materials[i])]
             Sum[k \in 0..Len(counts)] == IF k = 0 THEN 0 ELSE counts[k] + Sum[k - 1]
         IN 1 + Sum[Len(counts)]

RECURSIVE FullTreeSize(_, _)
\* the size of the full tree of the given depth with m children per node
FullTreeSize(m, depth) == IF depth = 0 THEN 1 ELSE 1 + m * FullTreeSize(m, depth - 1)

\* the recipe rows of item i, when a blueprint makes it
RecipeOf(i) ==
    IF FindManufacturingBlueprint(i) = None THEN <<>>
    ELSE FindManufacturingBlueprint(i)[1].materials

\* a manufacturing recipe (blueprint with a manufacturing activity) makes item i
HasRecipe(i) ==
    /\ FindManufacturingBlueprint(i) # None
    /\ "manufacturing" \in FindManufacturingBlueprint(i)[1].activities

Uses(i, j) == \E k \in DOMAIN RecipeOf(i) : RecipeOf(i)[k].material_id = j

Returned == chain.done /\ chain.node # None
Root == chain.node[1]

\* C4: on every recipe graph, cyclic or self-referential ones included, and
\* for every max_depth >= 0 the call returns, and a returned tree is finite:
\* no node lies deeper than max_depth below the root and the tree is no
\* larger than the full tree of that depth.
DepthBounded ==
    Returned =>
       /\ Depth(Root) <= request.max_depth
       /\ NodeCount(Root) <= FullTreeSize(SetMax(MaterialCounts), request.max_depth)

\* C4 witness: a tree returned for the cycle 1 -> 2 -> 1 with both recipes
\* expanded
DepthBoundedWitness ==
    /\ Returned
    /\ HasRecipe(1) /\ HasRecipe(2) /\ Uses(1, 2) /\ Uses(2, 1)
    /\ request.max_depth = 2
    /\ Depth(Root) = 2

\* C5: with max_depth = 0 a known item resolves to a node without children
\* and without blueprint id whose production cost is the market buy price.
DepthZeroIsLeaf ==
    (chain.done /\ ItemKnown(request.item_id) /\ request.max_depth = 0) =>
       /\ chain.node # None
       /\ Root.materials = <<>>
       /\ Root.blueprint_id = NoBlueprint
       /\ Root.production_cost = RatOfInt(BuyPrice(request.item_id))

\* C5 witness: max_depth = 0 for an item that a manufacturing recipe with
\* materials makes
DepthZeroIsLeafWitness ==
    /\ chain.done /\ request.max_depth = 0
    /\ HasRecipe(request.item_id) /\ RecipeOf(request.item_id) # <<>>
    /\ BuyPrice(request.item_id) > 0
    /\ chain.node # None

\* C6: the quantity of every child of the root is at least
\* floor(0.9 * base quantity * requested quantity) for a recipe row of that
\* material.
EfficiencyFloor ==
    Returned =>
       \A i \in DOMAIN Root.materials :
          \E k \in DOMAIN RecipeOf(Root.item_id) :
             /\ RecipeOf(Root.item_id)[k].material_id = Root.materials[i].item_id
             /\ Root.materials[i].quantity >=
                   (9 * RecipeOf(Root.item_id)[k].quantity * Root.quantity) \div 10

\* the cost per unit of a child: the production cost per unit of its node
ChildUnitCost(child) == child.production_cost

RECURSIVE SumChildCosts(_)
SumChildCosts(children) ==
    IF children = <<>> THEN RatOfInt(0)
    ELSE RatAdd(RatMulInt(ChildUnitCost(Head(children)), Head(children).quantity),
                SumChildCosts(Tail(children)))

\* C7: every node with children and a quantity >= 1 has production cost per
\* unit = (sum over its children of child cost per unit * child quantity)
\* divided by the node's quantity.
CostRollup ==
    Returned =>
       \A n \in Nodes(Root) :
          (n.materials # <<>> /\ n.quantity > 0) =>
             n.production_cost = RatDivInt(SumChildCosts(n.materials), n.quantity)

\* C8: every node without children has production cost per unit equal to its
\* market buy price.
LeafCostIsBuyPrice ==
    Returned =>
       \A n \in Nodes(Root) :
          n.materials = <<>> => n.production_cost = RatOfInt(n.buy_price)

RECURSIVE PathsDistinct(_, _)
\* no item of seen, and no item twice, on any path down from node
PathsDistinct(node, seen) ==
    /\ node.item_id \notin seen
    /\ \A i \in DOMAIN node.materials :
          PathsDistinct(node.materials[i], seen \cup {node.item_id})

\* C9: no item id occurs twice on a root-to-leaf path of a returned tree.
NoItemTwiceOnPath == Returned => PathsDistinct(Root, {})

\* C9 witness: the cycle 1 -> 2 -> 1, expanded down to item 2, whose recipe
\* lists item 1 again
NoItemTwiceOnPathWitness ==
    /\ Returned
    /\ HasRecipe(1) /\ HasRecipe(2) /\ Uses(1, 2) /\ Uses(2, 1)
    /\ request.max_depth = 2
    /\ \E i \in DOMAIN Root.materials :
          Root.materials[i].item_id = 2 /\ Root.materials[i].blueprint_id # NoBlueprint

\* C10: a known item never resolves to None, and a known item that no
\* manufacturing recipe makes resolves to a childless node priced from the
\* market.
KnownItemResolves ==
    (chain.done /\ ItemKnown(request.item_id)) =>
       /\ chain.node # None
       /\ ~HasRecipe(request.item_id) =>
             /\ Root.materials = <<>>
             /\ Root.production_cost = RatOfInt(BuyPrice(request.item_id))

----------------------------------------------------------------------------
(* The market specification: the price sources of the market service *)

\* an order of a stored catalog, for item i
CatalogOrder(i, is_buy, price) ==
    [ price |-> price, volume_remaining |-> 10, type_id |-> i, order_id |-> 600 + i,
      is_buy_order |-> is_buy, issue_date |-> FormatDate(9), station_id |-> 60001 ]

\* a catalog built by an earlier run from logs that held a buy order at 7
\* and a sell order at 9 for each of the given items
CatalogOf(item_ids) ==
    [ metadata     |-> [item_count |-> Len(item_ids), trading_hub_count |-> 0],
      items        |-> [k \in DOMAIN item_ids |->
                          <<Str(item_ids[k]),
                            ItemSummary(<<"o", "r", "e">>, item_ids[k],
                               <<CatalogOrder(item_ids[k], TRUE, 7),
                                 CatalogOrder(item_ids[k], FALSE, 9)>>)>>],
      trading_hubs |-> <<>> ]

\* the cache directories the service may find: no cache file, a catalog that
\* holds items 1 and 2, a catalog that holds item 2, a file that does not parse
CacheDirs ==
    {<<>>, [n \in {UnifiedName} |-> JCorrupt]}
       \cup {[n \in {UnifiedName} |-> DumpCatalog(CatalogOf(ids))] : ids \in {<<1, 2>>, <<2>>}}

\* the market_data rows of an item: none, one with both prices, one with
\* the sell price only
TableChoices == {<<>>, <<TableRow(Some(10), Some(12))>>, <<TableRow(None, Some(12))>>}

\* item 1 is made of items 2 and 3, which have no blueprint
MarketBlueprints ==
    << [ id |-> 101, product_id |-> 1, activities |-> {"manufacturing", "copying"},
         time |-> 600,
         materials |-> << [material_id |-> 2, quantity |-> 1],
                          [material_id |-> 3, quantity |-> 2] >> ] >>

InitMarket ==
    /\ market = [o \in OrderIds |-> FirstIssue]
    /\ logDir = <<>>
    /\ typeIdToFiles = [t \in TypeIds |-> <<>>]
    /\ fileCache = <<>>
    /\ parserCall = NoCall
    /\ serviceCall = NoService
    /\ itemTable = KnownItems
    /\ blueprints = MarketBlueprints
    /\ cacheDir \in CacheDirs
    /\ marketData \in [KnownItems -> TableChoices]
    /\ marketHistory \in [KnownItems -> {<<>>, <<HistoryRow>>}]
    /\ marketStats = StatisticsTable
    /\ request \in [ item_id : KnownItems, quantity : {1}, me_level : {0}, te_level : {0},
                      facility_bonus : {FloatZero}, max_depth : {1} ]
    /\ chain = NotCalled
    /\ WorkersIdle

NextMarket ==
    \/ \E i \in KnownItems : GetMarketStatisticsCall(i)
    \/ Resolve

SpecMarket == InitMarket /\ [][NextMarket]_vars

StatisticsCall == serviceCall.op = "get_market_statistics"

\* the unified catalog's statistics for an item, if the catalog holds it
CatalogStatistics(item_id) ==
    Only({IF item_data = None THEN None ELSE Some(item_data[1].statistics) :
            item_data \in {DictGet(UnifiedMarketData[1].items, Str(item_id))}})

\* the lowest sell price and the highest buy price of the table rows (0 when
\* no row carries the price)
TableSellPrice(item_id) ==
    LET S == {TableRows(item_id)[i].sell_price[1] :
                 i \in {j \in DOMAIN TableRows(item_id) : HasSellPrice(TableRows(item_id)[j])}}
    IN IF S = {} THEN 0 ELSE SetMin(S)

TableBuyPrice(item_id) ==
    LET S == {TableRows(item_id)[i].buy_price[1] :
                 i \in {j \in DOMAIN TableRows(item_id) : HasBuyPrice(TableRows(item_id)[j])}}
    IN IF S = {} THEN 0 ELSE SetMax(S)

\* C15: get_market_statistics takes the buy and sell price from the
\* relational price table whenever the table has rows for the item, and from
\* the unified catalog's min_sell/max_buy only when the table has none.
PriceSourcePriority ==
    StatisticsCall =>
       IF TableRows(serviceCall.arg) # <<>>
       THEN /\ serviceCall.result.sell_price = TableSellPrice(serviceCall.arg)
            /\ serviceCall.result.buy_price = TableBuyPrice(serviceCall.arg)
       ELSE CatalogStatistics(serviceCall.arg) # None =>
            /\ serviceCall.result.sell_price
                  = OrZero(CatalogStatistics(serviceCall.arg)[1].min_sell_price)
            /\ serviceCall.result.buy_price
                  = OrZero(CatalogStatistics(serviceCall.arg)[1].max_buy_price)

\* neither the price table nor the unified catalog has data for the item
NoSignal(item_id) == TableRows(item_id) = <<>> /\ CatalogStatistics(item_id) = None

\* C16: when neither the relational price table nor the unified catalog has
\* data for an item, get_market_statistics returns buy_price = 0 and
\* sell_price = 0, and the resolver prices the item's node at 0.
NoSignalIsZero ==
    /\ StatisticsCall /\ NoSignal(serviceCall.arg) =>
          /\ serviceCall.result.buy_price = 0
          /\ serviceCall.result.sell_price = 0
    /\ Returned =>
          \A n \in Nodes(Root) : NoSignal(n.item_id) =>
             /\ n.buy_price = 0
             /\ n.sell_price = 0
             /\ n.materials = <<>> => RatIsZero(n.production_cost)

\* C16 witness: the statistics of an item without any signal were asked for,
\* and a chain was resolved that holds a node of such an item
NoSignalIsZeroWitness ==
    /\ StatisticsCall /\ NoSignal(serviceCall.arg)
    /\ History(serviceCall.arg) = <<>>
    /\ Returned
    /\ \E n \in Nodes(Root) : NoSignal(n.item_id) /\ n.materials = <<>>
    /\ \E n \in Nodes(Root) : n.buy_price > 0

----------------------------------------------------------------------------
(* The profitability scan: ProductionService.calculate_production_profit,
   ProfitabilityAnalyzer.analyze_all_items and the widget's _run_analysis.
   Costs, profits and margins are kept as exact fractions; the filter, the
   sort and the entry of the code all read the one number that
   calculate_production_profit stored. *)

RECURSIVE IntOf(_)
\* int(item_id) of a key of the catalog
IntOf(digits) ==
    IF digits = <<>> THEN 0
    ELSE 10 * IntOf(SubSeq(digits, 1, Len(digits) - 1)) + digits[Len(digits)]

RatSub(x, y) == Rat(x.n * y.d - y.n * x.d, x.d * y.d)
RatDiv(x, y) == Rat(x.n * y.d, x.d * y.n)
RatLess(x, y) == x.n * y.d < y.n * x.d

\* max_depth=3 if include_components else 1
ComponentDepth == 3
ScanDepth(include_components) == IF include_components THEN ComponentDepth ELSE 1

\* ProductionChainNode.total_production_cost
NodeTotalProductionCost(node) == RatMulInt(node.production_cost, node.quantity)

\* profit and profit_margin of calculate_production_profit
ProfitData(item_id, quantity, market_price, production_cost) ==
    [ item_id         |-> item_id,
      production_cost |-> production_cost,
      market_price    |-> RatOfInt(market_price),
      profit          |-> RatSub(RatOfInt(market_price * quantity), production_cost),
      profit_margin   |-> IF production_cost.n > 0
                          THEN RatMulInt(RatDiv(RatSub(RatOfInt(market_price * quantity),
                                                       production_cost),
                                                production_cost), 100)
                          ELSE RatOfInt(0) ]

\* calculate_production_profit past the market price: None without a chain
\* or with a total production cost of zero
ProfitOfChain(item_id, quantity, market_price, production_chain) ==
    IF production_chain = None THEN None
    ELSE IF RatIsZero(NodeTotalProductionCost(production_chain[1])) THEN None
    ELSE Some(ProfitData(item_id, quantity, market_price,
                         NodeTotalProductionCost(production_chain[1])))

\* calculate_production_profit(item_id, quantity, me_level, include_components)
CalculateProductionProfit(item_id, quantity, me_level, include_components) ==
    IF SellPrice(item_id) <= 0 THEN None
    ELSE ProfitOfChain(item_id, quantity, SellPrice(item_id),
                       GetManufacturingDetails(item_id, quantity, me_level, 0, FloatZero,
                                               ScanDepth(include_components), {}))

\* a filter that only drops losses
BelowZero(profit_margin, min_margin) == RatLess(profit_margin, RatOfInt(0))

\* profit_data['profit_margin'] < min_profit_margin
BelowMargin(profit_margin, min_margin) == RatLess(profit_margin, RatOfInt(min_margin))

\* the entry appended to results
ResultEntry(profit_data, me_level) ==
    [ item_id             |-> profit_data.item_id,
      production_cost     |-> profit_data.production_cost,
      market_price        |-> profit_data.market_price,
      profit              |-> profit_data.profit,
      profit_margin       |-> profit_data.profit_margin,
      material_efficiency |-> me_level ]

\* the end of the loop body: no profit data or a margin below the threshold
\* skips the item
FilterProfit(profit_data, min_margin, me_level) ==
    IF profit_data = None THEN <<>>
    ELSE IF BelowMargin(profit_data[1].profit_margin, min_margin) THEN <<>>
    ELSE <<ResultEntry(profit_data[1], me_level)>>

\* the loop body for one key of the catalog
ScanItem(item_id, min_margin, me_level, include_components, only_manufacturable) ==
    IF ~ItemKnown(item_id) THEN <<>>
    ELSE IF only_manufacturable /\ FindManufacturingBlueprint(item_id) = None THEN <<>>
    ELSE FilterProfit(CalculateProductionProfit(item_id, 1, me_level, include_components),
                      min_margin, me_level)

RECURSIVE ScanItems(_, _, _, _, _)
\* the loop over the keys of the catalog, in the order of the document
ScanItems(item_ids, min_margin, me_level, include_components, only_manufacturable) ==
    IF item_ids = <<>> THEN <<>>
    ELSE ScanItem(IntOf(Head(item_ids)), min_margin, me_level, include_components,
                  only_manufacturable)
         \o ScanItems(Tail(item_ids), min_margin, me_level, include_components,
                      only_manufacturable)

\* the place of a new entry in a list sorted by sort_field, largest first:
\* behind every entry whose key is not smaller
InsertDescending(sorted, entry, sort_field) ==
    InsertAt(sorted,
             1 + Cardinality({i \in DOMAIN sorted :
                                ~RatLess(sorted[i][sort_field], entry[sort_field])}),
             entry)

RECURSIVE SortDescending(_, _)
\* results.sort(key=lambda x: x[sort_field], reverse=True): stable
SortDescending(results, sort_field) ==
    IF results = <<>> THEN <<>>
    ELSE InsertDescending(SortDescending(SubSeq(results, 1, Len(results) - 1), sort_field),
                          results[Len(results)], sort_field)

\* if limit_results: results = results[:limit_results]
Truncate(results, limit_results) ==
    IF limit_results = None THEN results
    ELSE IF limit_results[1] = 0 THEN results
    ELSE SubSeq(results, 1, IF limit_results[1] < Len(results) THEN limit_results[1]
                            ELSE Len(results))

\* the sort field of the widget's sort_by_combo index
SortFields == <<"profit_margin", "profit", "production_cost", "market_price">>
SortField(index) == IF index + 1 \in DOMAIN SortFields THEN SortFields[index + 1]
                    ELSE "profit_margin"

\* the keys of the unified catalog's items
CatalogItemIds == DictKeys(UnifiedMarketData[1].items)

\* ProfitabilityAnalyzer.analyze_all_items
AnalyzeAllItems(min_profit_margin, me_level, include_components, only_manufacturable, limit_results) ==
    /\ serviceCall' =
          [ op     |-> "analyze_all_items",
            arg    |-> [ min_margin |-> min_profit_margin, me_level |-> me_level,
                         include_components |-> include_components,
                         only_manufacturable |-> only_manufacturable,
                         max_results |-> limit_results, sort_field |-> "profit_margin" ],
            result |-> Truncate(SortDescending(ScanItems(CatalogItemIds, min_profit_margin,
                                                         me_level, include_components,
                                                         only_manufacturable),
                                               "profit_margin"),
                                limit_results) ]
    /\ cacheDir' = CacheAfterLoad
    /\ UNCHANGED <<parserVars, resolverVars, workerVars>>

\* ProfitabilityAnalyzerWidget._run_analysis, with the index of sort_by_combo
RunAnalysis(me_level, min_margin, include_components, only_manufacturable, max_results, sort_index) ==
    /\ serviceCall' =
          [ op     |-> "run_analysis",
            arg    |-> [ min_margin |-> min_margin, me_level |-> me_level,
                         include_components |-> include_components,
                         only_manufacturable |-> only_manufacturable,
                         max_results |-> Some(max_results),
                         sort_field |-> SortField(sort_index) ],
            result |-> Truncate(SortDescending(ScanItems(CatalogItemIds, min_margin,
                                                         me_level, include_components,
                                                         only_manufacturable),
                                               SortField(sort_index)),
                                Some(max_results)) ]
    /\ cacheDir' = CacheAfterLoad
    /\ UNCHANGED <<parserVars, resolverVars, workerVars>>

----------------------------------------------------------------------------
(* The scanner specification *)

\* item 1 is made of items 2 and 3, item 2 of item 3; item 3 has no blueprint
ScanBlueprints ==
    << [ id |-> 101, product_id |-> 1, activities |-> {"manufacturing"}, time |-> 600,
         materials |-> << [material_id |-> 2, quantity |-> 1],
                          [material_id |-> 3, quantity |-> 2] >> ],
       [ id |-> 102, product_id |-> 2, activities |-> {"manufacturing"}, time |-> 300,
         materials |-> << [material_id |-> 3, quantity |-> 2] >> ] >>

\* the catalogs found in the cache: 4 is an item the items table does not have
ScanCatalogs == {<<1, 2, 3>>, <<3, 1, 2>>, <<2, 4>>}

\* the market_data rows of an item: buy 10 / sell 12, or buy 4 / sell 30; the
\* raw material, item 3, has buy 4 / sell 30
RawTable == <<TableRow(Some(4), Some(30))>>
ScanTables == {<<TableRow(Some(10), Some(12))>>, RawTable}

\* the thresholds, efficiency levels and limits asked for; the widget's
\* max_results spin box starts at 10
MinMargins == {0, 50}
ScanMeLevels == {0, 10}
Limits == {None, Some(0), Some(1), Some(2)}
WidgetMinResults == 10
SortIndexes == {0, 1, 2, 3}

InitScanner ==
    /\ market = [o \in OrderIds |-> FirstIssue]
    /\ logDir = <<>>
    /\ typeIdToFiles = [t \in TypeIds |-> <<>>]
    /\ fileCache = <<>>
    /\ parserCall = NoCall
    /\ serviceCall = NoService
    /\ itemTable = KnownItems
    /\ blueprints = ScanBlueprints
    /\ cacheDir \in {[n \in {UnifiedName} |-> DumpCatalog(CatalogOf(ids))] : ids \in ScanCatalogs}
    /\ marketData \in {t \in [KnownItems -> ScanTables] : t[3] = RawTable}
    /\ marketHistory = [i \in KnownItems |-> <<HistoryRow>>]
    /\ marketStats = StatisticsTable
    /\ request \in [ item_id : {1}, quantity : {1}, me_level : {0}, te_level : {0},
                      facility_bonus : {FloatZero}, max_depth : {1} ]
    /\ chain = NotCalled
    /\ WorkersIdle

NextScanner ==
    \/ \E m \in MinMargins, me \in ScanMeLevels, c \in BOOLEAN, o \in BOOLEAN, l \in Limits :
          AnalyzeAllItems(m, me, c, o, l)
    \/ \E m \in MinMargins, me \in ScanMeLevels, c \in BOOLEAN, o \in BOOLEAN, s \in SortIndexes :
          RunAnalysis(me, m, c, o, WidgetMinResults, s)

SpecScanner == InitScanner /\ [][NextScanner]_vars

Scanned == serviceCall.op \in {"analyze_all_items", "run_analysis"}

\* the margin calculate_production_profit computes for the item of an entry
\* under the parameters of the scan
ComputedMargin(entry) ==
    CalculateProductionProfit(entry.item_id, 1, serviceCall.arg.me_level,
                              serviceCall.arg.include_components)[1].profit_margin

\* C14: no entry of the list returned by the profitability scan has a computed
\* profit margin below the threshold the scan was given.
MarginFilter ==
    Scanned =>
       \A k \in DOMAIN serviceCall.result :
          /\ serviceCall.result[k].profit_margin = ComputedMargin(serviceCall.result[k])
          /\ ~RatLess(serviceCall.result[k].profit_margin,
                      RatOfInt(serviceCall.arg.min_margin))

\* C14 witness: a scan with a positive threshold returned an entry and left
\* out a known item whose margin is not negative and below the threshold
MarginFilterWitness ==
    /\ Scanned
    /\ serviceCall.arg.min_margin > 0
    /\ ~serviceCall.arg.only_manufacturable
    /\ serviceCall.result # <<>>
    /\ \E i \in KnownItems :
          /\ Str(i) \in Range(CatalogItemIds)
          /\ \A k \in DOMAIN serviceCall.result : serviceCall.result[k].item_id # i
          /\ \E p \in {CalculateProductionProfit(i, 1, serviceCall.arg.me_level,
                                                 serviceCall.arg.include_components)} :
                /\ p # None
                /\ ~RatLess(p[1].profit_margin, RatOfInt(0))
                /\ RatLess(p[1].profit_margin, RatOfInt(serviceCall.arg.min_margin))

\* the entries the scan collected before it sorted and cut the list
Collected ==
    ScanItems(CatalogItemIds, serviceCall.arg.min_margin, serviceCall.arg.me_level,
              serviceCall.arg.include_components, serviceCall.arg.only_manufacturable)

\* the list is in non-increasing order of the sort field
SortedDescending(results, sort_field) ==
    \A k \in 1..(Len(results) - 1) :
       ~RatLess(results[k][sort_field], results[k + 1][sort_field])

\* the list holds collected entries, and no collected entry left out has a
\* larger key than one that was kept
TopEntries(results, sort_field) ==
    /\ Range(results) \subseteq Range(Collected)
    /\ \A e \in Range(Collected) \ Range(results) :
          \A k \in DOMAIN results : ~RatLess(results[k][sort_field], e[sort_field])

\* C20: the list returned by the profitability scan is sorted in
\* non-increasing order of the requested sort key, has at most max_results
\* entries, and these are the top entries under that order.
ScanOrdering ==
    Scanned =>
       /\ SortedDescending(serviceCall.result, serviceCall.arg.sort_field)
       /\ serviceCall.arg.max_results # None =>
             Len(serviceCall.result) <= serviceCall.arg.max_results[1]
       /\ TopEntries(serviceCall.result, serviceCall.arg.sort_field)

----------------------------------------------------------------------------
(* The summary specification: parse_all_logs on the log of a deep order book *)

\* most orders per side in the exported book; above TopN
MaxOrders == 22

BookPatterns == {"rising", "falling", "mixed", "ties"}

\* the price of the k-th row of the export
BookPrice(pattern, k) ==
    CASE pattern = "rising"  -> 10 + k
      [] pattern = "falling" -> 100 - k
      [] pattern = "mixed"   -> 10 + ((7 * k) % 23)
      [] pattern = "ties"    -> 10 + (k % 3)

\* the k-th row of an export of item 34 with buys buy orders followed by
\* sell orders
BookRow(pattern, buys, k) ==
    [ price        |-> BookPrice(pattern, k),
      volRemaining |-> 1 + (k % 3),
      typeID       |-> 34,
      orderID      |-> 1000 + k,
      bid          |-> IF k <= buys THEN "True" ELSE "False",
      issueDate    |-> FormatDate(9),
      stationID    |-> 60001,
      garbled      |-> {} ]

\* the log directory after one export of that book
BookDir(pattern, buys, sells) ==
    << [ path |-> 1, stem |-> FileStem(34, 1), readable |-> TRUE,
         rows |-> [k \in 1..(buys + sells) |-> BookRow(pattern, buys, k)] ] >>

InitSummary ==
    /\ market = [o \in OrderIds |-> FirstIssue]
    /\ \E pattern \in BookPatterns, buys \in 0..MaxOrders, sells \in 0..MaxOrders :
          logDir = BookDir(pattern, buys, sells)
    /\ typeIdToFiles = [t \in TypeIds |-> <<>>]
    /\ fileCache = <<>>
    /\ parserCall = NoCall
    /\ itemTable = {}
    /\ blueprints = <<>>
    /\ marketData = <<>>
    /\ marketHistory = <<>>
    /\ marketStats = <<>>
    /\ cacheDir = <<>>
    /\ serviceCall = NoService
    /\ request = NoRequest
    /\ chain = NotCalled
    /\ WorkersIdle

NextSummary == ParseAllLogs

SpecSummary == InitSummary /\ [][NextSummary]_vars

\* the orders of an item in the log files, one per order id in this directory
BookOrders(type_id, is_buy) ==
    UNION {{ParseRow(logDir[f].rows[k]) :
              k \in {j \in DOMAIN logDir[f].rows :
                       /\ logDir[f].rows[j].typeID = type_id
                       /\ (logDir[f].rows[j].bid = "True") = is_buy}} :
           f \in DOMAIN logDir}

RECURSIVE TotalVolume(_)
TotalVolume(orders) ==
    IF orders = {} THEN 0
    ELSE LET o == CHOOSE x \in orders : TRUE
         IN o.volume_remaining + TotalVolume(orders \ {o})

\* the statistics of a summary cover the given buy and sell orders
StatisticsCover(statistics, buys, sells) ==
    /\ statistics.min_sell_price
          = IF sells = {} THEN None ELSE Some(SetMin({o.price : o \in sells}))
    /\ statistics.max_buy_price
          = IF buys = {} THEN None ELSE Some(SetMax({o.price : o \in buys}))
    /\ statistics.sell_order_count = Cardinality(sells)
    /\ statistics.buy_order_count = Cardinality(buys)
    /\ statistics.total_sell_volume = TotalVolume(sells)
    /\ statistics.total_buy_volume = TotalVolume(buys)

\* at most TopN orders per side, buys from the highest price down and sells
\* from the lowest price up
SidesInOrder(summary) ==
    /\ Len(summary.buy_orders) <= TopN
    /\ Len(summary.sell_orders) <= TopN
    /\ \A k \in 1..(Len(summary.buy_orders) - 1) :
          summary.buy_orders[k].price >= summary.buy_orders[k + 1].price
    /\ \A k \in 1..(Len(summary.sell_orders) - 1) :
          summary.sell_orders[k].price <= summary.sell_orders[k + 1].price

\* C19: every item summary of a catalog built by parse_all_logs keeps at most
\* 20 buy orders in non-increasing and at most 20 sell orders in
\* non-decreasing price order, while min_sell_price, max_buy_price, the order
\* counts and the volumes are those of all deduplicated orders of the item.
SummaryShape ==
    parserCall.op = "parse_all_logs" =>
       \A i \in DOMAIN parserCall.result.items :
          /\ SidesInOrder(parserCall.result.items[i][2])
          /\ StatisticsCover(parserCall.result.items[i][2].statistics,
                             BookOrders(parserCall.result.items[i][2].type_id, TRUE),
                             BookOrders(parserCall.result.items[i][2].type_id, FALSE))

\* C19 witness: a catalog was built from a book with more than 20 orders on
\* each side, listed out of price order; the summary kept 20 per side
SummaryShapeWitness ==
    /\ parserCall.op = "parse_all_logs"
    /\ parserCall.log_files # <<>>
    /\ \E i \in DOMAIN parserCall.result.items :
          /\ parserCall.result.items[i][2].statistics.buy_order_count > TopN
          /\ parserCall.result.items[i][2].statistics.sell_order_count > TopN
          /\ Len(parserCall.result.items[i][2].buy_orders) = TopN
          /\ Len(parserCall.result.items[i][2].sell_orders) = TopN
    /\ \E k \in 1..(Len(logDir[1].rows) - 1) :
          /\ logDir[1].rows[k].bid = logDir[1].rows[k + 1].bid
          /\ logDir[1].rows[k].price > logDir[1].rows[k + 1].price
    /\ \E k \in 1..(Len(logDir[1].rows) - 1) :
          /\ logDir[1].rows[k].bid = logDir[1].rows[k + 1].bid
          /\ logDir[1].rows[k].price < logDir[1].rows[k + 1].price

----------------------------------------------------------------------------
(* The damaged-log specification: log files whose text is not what the game
   client writes *)

\* what can be wrong with a file of the log directory: a cell of its first
\* row is not a number, or the file cannot be opened
Damages == {"typeID", "price", "unreadable"}

\* a log file that arrives damaged in the directory
ExportDamagedLog(t, damage) ==
    /\ Len(logDir) < MaxFiles
    /\ \E pos \in 1..(Len(logDir) + 1) :
          logDir' = InsertAt(logDir, pos,
                       [ path     |-> Len(logDir) + 1,
                         stem     |-> FileStem(t, Len(logDir) + 1),
                         readable |-> damage # "unreadable",
                         rows     |-> [i \in DOMAIN ExportRows(t) |->
                                         IF i = 1 /\ damage # "unreadable"
                                         THEN [ExportRows(t)[i] EXCEPT !.garbled = {damage}]
                                         ELSE ExportRows(t)[i]] ])
    /\ UNCHANGED <<market, typeIdToFiles, fileCache, parserCall, resolverVars, workerVars, serviceVars>>

\* one call of parse_log_file by a caller
ParseLogFileCall(path) ==
    /\ path \in Range(Glob)
    /\ fileCache' = CacheAfter({path})
    /\ parserCall' = [op |-> "parse_log_file", arg |-> path, dir_size |-> Len(logDir),
                      log_files |-> <<path>>, raised |-> FALSE,
                      result |-> ParseLogFile(path)]
    /\ UNCHANGED <<market, logDir, typeIdToFiles, resolverVars, workerVars, serviceVars>>

NextDamaged ==
    \/ \E t \in TypeIds : ExportLog(t)
    \/ \E t \in TypeIds, damage \in Damages : ExportDamagedLog(t, damage)
    \/ \E path \in 1..MaxFiles : ParseLogFileCall(path)
    \/ \E t \in TypeIds : ParseLogsForTypeId(t)
    \/ ParseAllLogs

SpecDamaged == InitParser /\ [][NextDamaged]_vars

\* C17: parse_log_file, parse_logs_for_type_id (indexed path and fallback
\* scan) and parse_all_logs return a result and never raise, whatever the
\* log directory holds.
ParsingNeverRaises ==
    parserCall.op \in {"parse_log_file", "parse_logs_for_type_id", "parse_all_logs"} =>
       ~parserCall.raised

----------------------------------------------------------------------------
(* The timing specification: the production time of one blueprint under
   every time-efficiency level *)

\* te_level: Time Efficiency level of the blueprint (0-20)
MaxTeLevel == 20

\* the base times of the blueprint, in seconds
BaseTimes == {1, 60, 600, 3600, 86400}

\* item 1 is made of item 2 in the given time
TimingBlueprints(time) ==
    << [ id |-> 101, product_id |-> 1, activities |-> {"manufacturing"}, time |-> time,
         materials |-> << [material_id |-> 2, quantity |-> 1] >> ] >>

InitTiming ==
    /\ market = [o \in OrderIds |-> FirstIssue]
    /\ logDir = <<>>
    /\ typeIdToFiles = [t \in TypeIds |-> <<>>]
    /\ fileCache = <<>>
    /\ parserCall = NoCall
    /\ cacheDir = <<>>
    /\ serviceCall = NoService
    /\ itemTable = KnownItems
    /\ marketData = [i \in KnownItems |-> <<TableRow(Some(10), Some(12))>>]
    /\ marketHistory = [i \in KnownItems |-> <<HistoryRow>>]
    /\ marketStats = StatisticsTable
    /\ blueprints \in {TimingBlueprints(time) : time \in BaseTimes}
    /\ request \in [ item_id : {1}, quantity : {1}, me_level : {0},
                      te_level : 0..MaxTeLevel, facility_bonus : {FloatZero},
                      max_depth : {1} ]
    /\ chain = NotCalled
    /\ WorkersIdle

NextTiming == Resolve

SpecTiming == InitTiming /\ [][NextTiming]_vars

\* x is at least a fifth of y, as real numbers
AtLeastFifth(x, y) == ~FloatLess([n |-> NatMulLimb(x.n, 5, 0), e |-> x.e], y)

\* C18: for every te_level in 0..20 the factor 1 - min(0.2 * te_level, 0.8)
\* is never below 0.2, and with facility_bonus = 0 the adjusted time is at
\* least 20% of the base time.
TimeEfficiencyCap ==
    Returned /\ request.facility_bonus = FloatZero /\ Root.blueprint_id # NoBlueprint =>
       /\ AtLeastFifth(TimeFactor(request.te_level), FloatOne)
       /\ AtLeastFifth(Root.time_required, FloatOfInt(blueprints[1].time))

----------------------------------------------------------------------------
(* The chain specification: recipe graphs with shared, repeated and cyclic
   materials, resolved for valid and invalid requests *)

ChainItems == {1, 2, 3, 4, 5}

\* a blueprint with a manufacturing activity that makes product from the
\* listed materials, base_quantity of each
ChainBlueprint(product, material_ids, base_quantity) ==
    [ id |-> 100 + product, product_id |-> product, activities |-> {"manufacturing"},
      time |-> 600,
      materials |-> [k \in DOMAIN material_ids |->
                       [material_id |-> material_ids[k], quantity |-> base_quantity]] ]

\* item 4 is used under the sibling materials 2 and 3 and is listed twice in
\* the recipe of item 2; item 5 is raw
SharedTable(q) ==
    << ChainBlueprint(1, <<2, 3>>, q), ChainBlueprint(2, <<4, 4>>, q),
       ChainBlueprint(3, <<4>>, q), ChainBlueprint(4, <<5>>, q) >>

\* item 1 lists itself, and items 1 and 2 list each other
CyclicTable(q) == << ChainBlueprint(1, <<1, 2>>, q), ChainBlueprint(2, <<1, 5>>, q) >>

\* a plain chain 1 <- 2 <- 5
PlainTable(q) == << ChainBlueprint(1, <<2>>, q), ChainBlueprint(2, <<5>>, q) >>

ChainTables == UNION {{SharedTable(q), CyclicTable(q), PlainTable(q), <<>>} : q \in BaseQuantities}

\* the buy prices of items 2 and 5 vary; the other items cost 10
ChainPrices ==
    {t \in [ChainItems -> {<<TableRow(Some(b), Some(12))>> : b \in Prices}] :
        \A i \in {1, 3, 4} : t[i] = <<TableRow(Some(10), Some(12))>>}

\* the requests: negative quantities and depths are among them
ChainRequests ==
    [ item_id : {1}, quantity : {-1, 1, 3}, me_level : MeLevels, te_level : {0},
      facility_bonus : {FloatZero}, max_depth : -1..ComponentDepth ]

InitChain ==
    /\ market = [o \in OrderIds |-> FirstIssue]
    /\ logDir = <<>>
    /\ typeIdToFiles = [t \in TypeIds |-> <<>>]
    /\ fileCache = <<>>
    /\ parserCall = NoCall
    /\ cacheDir = <<>>
    /\ serviceCall = NoService
    /\ itemTable = ChainItems
    /\ marketData \in ChainPrices
    /\ marketHistory = [i \in ChainItems |-> <<HistoryRow>>]
    /\ marketStats = StatisticsTable
    /\ blueprints \in ChainTables
    /\ request \in ChainRequests
    /\ chain = NotCalled
    /\ WorkersIdle

NextChain == Resolve

SpecChain == InitChain /\ [][NextChain]_vars

\* the node ran the material loop of its recipe
Expanded(node) == node.blueprint_id # NoBlueprint

\* the children of a node that stand for an item
ChildrenOf(node, item_id) == {i \in DOMAIN node.materials : node.materials[i].item_id = item_id}

\* the recipe rows of an item that list a material
RowsListing(item_id, material_id) ==
    {k \in DOMAIN RecipeOf(item_id) : RecipeOf(item_id)[k].material_id = material_id}

RECURSIVE VisitedKeptAsBuy(_, _)
\* below node, reached along path: every recipe row of an expanded node whose
\* material is on the path has a childless child priced at the buy price
VisitedKeptAsBuy(node, path) ==
    /\ Expanded(node) =>
          \A m \in path \cup {node.item_id} :
             RowsListing(node.item_id, m) # {} =>
                \E i \in ChildrenOf(node, m) :
                   /\ node.materials[i].materials = <<>>
                   /\ node.materials[i].production_cost = RatOfInt(BuyPrice(m))
    /\ \A i \in DOMAIN node.materials :
          VisitedKeptAsBuy(node.materials[i], path \cup {node.item_id})

\* C24: a material that is already in the visited set is not expanded but
\* still appears among the parent's children, as a childless node priced at
\* its market buy price (so that its cost enters the parent's production cost).
VisitedMaterialIsBuyItem == Returned => VisitedKeptAsBuy(Root, {})

RECURSIVE ExpandedInEachPlace(_, _, _)
\* below node, reached along path with depth levels left: every recipe row
\* whose material is not on the path has its own child, and the child is
\* expanded when a recipe makes the material and a level is left for it
ExpandedInEachPlace(node, path, depth) ==
    /\ Expanded(node) =>
          \A m \in ChainItems \ (path \cup {node.item_id}) :
             /\ Cardinality(ChildrenOf(node, m)) = Cardinality(RowsListing(node.item_id, m))
             /\ (HasRecipe(m) /\ depth > 1) =>
                   \A i \in ChildrenOf(node, m) : Expanded(node.materials[i])
    /\ \A i \in DOMAIN node.materials :
          ExpandedInEachPlace(node.materials[i], path \cup {node.item_id}, depth - 1)

\* C25: sibling branches do not prune each other: an item used under two
\* sibling materials, or listed twice as a direct material of one node, is
\* expanded in each place; only the ancestors on the path stop an expansion.
SiblingsDoNotPrune == Returned => ExpandedInEachPlace(Root, {}, request.max_depth)

\* C25 witness: item 4 was expanded twice under item 2, whose recipe lists it
\* twice, and once more under the sibling material 3
SiblingsDoNotPruneWitness ==
    /\ Returned
    /\ request.max_depth = 3
    /\ Len(Root.materials) = 2
    /\ Root.materials[1].item_id = 2 /\ Root.materials[2].item_id = 3
    /\ Cardinality({i \in ChildrenOf(Root.materials[1], 4) :
                       Root.materials[1].materials[i].materials # <<>>}) = 2
    /\ \E i \in ChildrenOf(Root.materials[2], 4) :
          Root.materials[2].materials[i].materials # <<>>

\* the cost per unit of a child: production cost with children, buy price
\* without
SelectedCost(child) ==
    IF child.materials # <<>> THEN child.production_cost ELSE RatOfInt(child.buy_price)

RECURSIVE SumSelectedCosts(_)
SumSelectedCosts(children) ==
    IF children = <<>> THEN RatOfInt(0)
    ELSE RatAdd(RatMulInt(SelectedCost(Head(children)), Head(children).quantity),
                SumSelectedCosts(Tail(children)))

\* C26: in the rollup the cost per unit used for a child is the child's
\* production cost whenever the child has children, a production cost of 0
\* included, and the child's market buy price only when the child is a leaf.
ChildCostSelection ==
    Returned =>
       \A n \in Nodes(Root) :
          (n.materials # <<>> /\ n.quantity > 0) =>
             n.production_cost = RatDivInt(SumSelectedCosts(n.materials), n.quantity)

\* C27: the resolver raises exactly when the quantity or max_depth is
\* negative; every other request ends with a node or None.
RaisesOnInvalidOnly ==
    chain.done => (chain.raised <=> (request.quantity < 0 \/ request.max_depth < 0))

RECURSIVE MaterialsKept(_, _, _)
\* below node: every recipe row of an expanded node whose material is not on
\* the path has an adjusted quantity of at least 1 and a child whose quantity
\* is at least the node's
MaterialsKept(node, path, me_level) ==
    /\ Expanded(node) =>
          \A k \in DOMAIN RecipeOf(node.item_id) :
             RecipeOf(node.item_id)[k].material_id \notin path \cup {node.item_id} =>
                /\ AdjustedQuantity(RecipeOf(node.item_id)[k].quantity, me_level) >= 1
                /\ \E i \in ChildrenOf(node, RecipeOf(node.item_id)[k].material_id) :
                      node.materials[i].quantity >= node.quantity
    /\ \A i \in DOMAIN node.materials :
          MaterialsKept(node.materials[i], path \cup {node.item_id}, me_level)

\* C30: material efficiency never removes a material: for me_level 0..10 and
\* a base quantity >= 1 the adjusted quantity per unit is at least 1, so each
\* material of an expanded recipe has a child with quantity >= the parent's.
EfficiencyKeepsMaterials ==
    (Returned /\ request.quantity > 0) => MaterialsKept(Root, {}, request.me_level)

----------------------------------------------------------------------------
(* Properties of the stored catalog document *)

\* C29: after any sequence of parse_all_logs, get_trading_hubs and
\* clear_cache_and_reload, with log files changing in between, the cached
\* catalog has metadata.item_count = number of entries of items and
\* metadata.trading_hub_count = length of trading_hubs.
MetadataConsistent ==
    StoredCatalog # None =>
       /\ StoredCatalog[1].metadata.item_count = Len(StoredCatalog[1].items)
       /\ StoredCatalog[1].metadata.trading_hub_count = Len(StoredCatalog[1].trading_hubs)

----------------------------------------------------------------------------
(* The reload specification: the DataLoader thread of the market tab, the
   interface thread that starts and cancels it, and a thread that loads the
   catalog through a MarketService of its own (the resolver and the scanner
   construct one).  No lock guards the catalog, so each thread takes its
   steps between the steps of the others; a step is a stretch of code that
   touches the shared flag, file or field once. *)

\* the reload requests and the catalog loads of other threads that are followed
MaxReloads == 2
MaxCalls == 2

\* QThread.isRunning(): from start() until run() has returned
IsRunning == loader.pc \notin {"none", "done"}

\* clear_cache_and_reload of the loader is past the removal of the cache file
\* and has not yet written its last file
LoaderRebuilding == loader.pc \in {"parse", "build", "open1", "dump1", "hubs", "open2", "dump2"}

\* the caller is inside a cache-miss parse_all_logs
CallerRebuilding == caller.pc \in {"build", "open", "dump"}

\* the steps of run() that lie inside market_service.reload_market_data()
InsideReload == {"remove", "parse", "build", "open1", "dump1", "hubs", "open2", "dump2", "assign"}

\* the reload request: a running loader is cancelled and waited for (cancelled_at
\* records where run() stood when cancel() set the flag)
ReloadRequested ==
    /\ tab.pc = "idle" /\ tab.reloads < MaxReloads
    /\ tab' = [pc |-> IF IsRunning THEN "waiting" ELSE "create", reloads |-> tab.reloads + 1]
    /\ loader' = IF IsRunning
                 THEN [loader EXCEPT !.should_cancel = TRUE, !.cancelled_at = loader.pc]
                 ELSE loader
    /\ UNCHANGED <<parserVars, resolverVars, serviceVars, caller, memory>>

\* _active_data_loader.wait() returns once run() has returned
WaitReturns ==
    /\ tab.pc = "waiting" /\ ~IsRunning
    /\ tab' = [tab EXCEPT !.pc = "create"]
    /\ UNCHANGED <<parserVars, resolverVars, serviceVars, loader, caller, memory>>

\* DataLoader(self.market_service) and start()
StartLoader ==
    /\ tab.pc = "create"
    /\ loader' = [NoLoader EXCEPT !.pc = "started"]
    /\ tab' = [tab EXCEPT !.pc = "idle"]
    /\ UNCHANGED <<parserVars, resolverVars, serviceVars, caller, memory>>

\* run(): self._is_running = True
RunBegin ==
    /\ loader.pc = "started"
    /\ loader' = [loader EXCEPT !.pc = "reset", !.is_running = TRUE,
                                !.before = [memory |-> memory, file |-> StoredCatalog]]
    /\ UNCHANGED <<parserVars, resolverVars, serviceVars, tab, caller, memory>>

\* run(): self._should_cancel = False
RunReset ==
    /\ loader.pc = "reset"
    /\ loader' = [loader EXCEPT !.pc = "check", !.should_cancel = FALSE]
    /\ UNCHANGED <<parserVars, resolverVars, serviceVars, tab, caller, memory>>

\* run(): while not self._should_cancel
RunCheck ==
    /\ loader.pc = "check"
    /\ loader' = [loader EXCEPT !.pc = IF loader.should_cancel THEN "finally" ELSE "remove"]
    /\ UNCHANGED <<parserVars, resolverVars, serviceVars, tab, caller, memory>>

\* clear_cache_and_reload: os.remove(cache_file) and self._file_cache.clear()
ReloadRemove ==
    /\ loader.pc = "remove"
    /\ cacheDir' = RemoveCache(cacheDir, UnifiedName)
    /\ fileCache' = <<>>
    /\ loader' = [loader EXCEPT !.pc = "parse"]
    /\ UNCHANGED <<market, logDir, typeIdToFiles, parserCall, resolverVars, serviceCall,
                   tab, caller, memory>>

\* parse_all_logs of the loader: the cache test
ReloadParse ==
    /\ loader.pc = "parse"
    /\ loader' = IF StoredCatalog # None
                 THEN [loader EXCEPT !.pc = "hubs", !.doc = StoredCatalog]
                 ELSE [loader EXCEPT !.pc = "build"]
    /\ UNCHANGED <<parserVars, resolverVars, serviceVars, tab, caller, memory>>

\* parse_all_logs of the loader: the items, the hubs and the summaries
ReloadBuild ==
    /\ loader.pc = "build" /\ IndexRoom
    /\ typeIdToFiles' = BuildCatalog(typeIdToFiles).index
    /\ fileCache' = CacheAfter(BuildCatalog(typeIdToFiles).files)
    /\ loader' = [loader EXCEPT !.pc = "open1", !.doc = Some(BuildCatalog(typeIdToFiles).doc)]
    /\ UNCHANGED <<market, logDir, parserCall, resolverVars, serviceVars, tab, caller, memory>>

\* cache_parsed_data: open(cache_path, 'w') leaves an empty file
ReloadOpen ==
    /\ loader.pc \in {"open1", "open2"}
    /\ cacheDir' = [n \in DOMAIN cacheDir \cup {UnifiedName} |->
                      IF n = UnifiedName THEN JCorrupt ELSE cacheDir[n]]
    /\ loader' = [loader EXCEPT !.pc = IF loader.pc = "open1" THEN "dump1" ELSE "dump2"]
    /\ UNCHANGED <<parserVars, resolverVars, serviceCall, tab, caller, memory>>

\* cache_parsed_data: json.dump and the close of the file
ReloadDump ==
    /\ loader.pc \in {"dump1", "dump2"}
    /\ cacheDir' = CacheParsedData(cacheDir, loader.doc[1], UnifiedName)
    /\ loader' = [loader EXCEPT !.pc = IF loader.pc = "dump1" THEN "hubs" ELSE "assign"]
    /\ UNCHANGED <<parserVars, resolverVars, serviceCall, tab, caller, memory>>

\* clear_cache_and_reload: the hubs are extracted again and put into the
\* document parse_all_logs returned
ReloadHubs ==
    /\ loader.pc = "hubs"
    /\ loader' = [loader EXCEPT !.pc = "open2",
                     !.doc = Some([loader.doc[1] EXCEPT !.trading_hubs = ExtractTradingHubs(Glob)])]
    /\ UNCHANGED <<parserVars, resolverVars, serviceVars, tab, caller, memory>>

\* reload_market_data: self._unified_market_data = unified_data; return True
ReloadAssign ==
    /\ loader.pc = "assign"
    /\ memory' = loader.doc
    /\ loader' = [loader EXCEPT !.pc = "after"]
    /\ UNCHANGED <<parserVars, resolverVars, serviceVars, tab, caller>>

\* run(): the test of the flag after the reload, and the signal
RunEmit ==
    /\ loader.pc = "after"
    /\ loader' = [loader EXCEPT !.pc = "finally",
                     !.signals = Append(loader.signals,
                                    IF loader.should_cancel
                                    THEN [success |-> FALSE, message |-> "Operation cancelled"]
                                    ELSE [success |-> TRUE, message |-> ""])]
    /\ UNCHANGED <<parserVars, resolverVars, serviceVars, tab, caller, memory>>

\* run(): finally: self._is_running = False, and the thread ends
RunFinally ==
    /\ loader.pc = "finally"
    /\ loader' = [loader EXCEPT !.pc = "done", !.is_running = FALSE]
    /\ UNCHANGED <<parserVars, resolverVars, serviceVars, tab, caller, memory>>

\* _load_unified_market_data of a new MarketService: load_cached_data
CallerLoad ==
    /\ caller.pc = "idle" /\ caller.calls < MaxCalls
    /\ caller' = [ pc    |-> IF StoredCatalog # None THEN "idle" ELSE "parse",
                   calls |-> caller.calls + 1,
                   seen  |-> StoredCatalog,
                   run   |-> IF LoaderRebuilding THEN tab.reloads ELSE 0,
                   doc   |-> StoredCatalog ]
    /\ UNCHANGED <<parserVars, resolverVars, serviceVars, loader, tab, memory>>

\* parse_all_logs of the caller: the cache test
CallerParse ==
    /\ caller.pc = "parse"
    /\ caller' = IF StoredCatalog # None
                 THEN [caller EXCEPT !.pc = "idle", !.doc = StoredCatalog]
                 ELSE [caller EXCEPT !.pc = "build"]
    /\ UNCHANGED <<parserVars, resolverVars, serviceVars, loader, tab, memory>>

\* parse_all_logs of the caller, on the new parser of its service
CallerBuild ==
    /\ caller.pc = "build"
    /\ caller' = [caller EXCEPT !.pc = "open", !.doc = Some(FreshCatalog)]
    /\ UNCHANGED <<parserVars, resolverVars, serviceVars, loader, tab, memory>>

\* cache_parsed_data of the caller: open(cache_path, 'w')
CallerOpen ==
    /\ caller.pc = "open"
    /\ cacheDir' = [n \in DOMAIN cacheDir \cup {UnifiedName} |->
                      IF n = UnifiedName THEN JCorrupt ELSE cacheDir[n]]
    /\ caller' = [caller EXCEPT !.pc = "dump"]
    /\ UNCHANGED <<parserVars, resolverVars, serviceCall, loader, tab, memory>>

\* cache_parsed_data of the caller: json.dump
CallerDump ==
    /\ caller.pc = "dump"
    /\ cacheDir' = CacheParsedData(cacheDir, caller.doc[1], UnifiedName)
    /\ caller' = [caller EXCEPT !.pc = "idle"]
    /\ UNCHANGED <<parserVars, resolverVars, serviceCall, loader, tab, memory>>

\* the catalog an earlier session left in the cache: built when the logs held
\* item 35 only
StaleCatalog == CatalogOf(<<35>>)

\* one exported log of item 34; the cache is empty or holds the stale catalog,
\* which the tab's service may have loaded already
InitReload ==
    /\ market = [o \in OrderIds |-> FirstIssue]
    /\ logDir = BookDir("rising", 1, 1)
    /\ typeIdToFiles = [t \in TypeIds |-> <<>>]
    /\ fileCache = <<>>
    /\ parserCall = NoCall
    /\ itemTable = {}
    /\ blueprints = <<>>
    /\ marketData = <<>>
    /\ marketHistory = <<>>
    /\ marketStats = <<>>
    /\ request = NoRequest
    /\ chain = NotCalled
    /\ serviceCall = NoService
    /\ cacheDir \in {<<>>, [n \in {UnifiedName} |-> DumpCatalog(StaleCatalog)]}
    /\ memory \in {None, LoadCachedDataFrom(cacheDir, UnifiedName)}
    /\ loader = NoLoader
    /\ tab = NoTab
    /\ caller = NoCaller

NextReload ==
    \/ ReloadRequested
    \/ WaitReturns
    \/ StartLoader
    \/ RunBegin
    \/ RunReset
    \/ RunCheck
    \/ ReloadRemove
    \/ ReloadParse
    \/ ReloadBuild
    \/ ReloadOpen
    \/ ReloadDump
    \/ ReloadHubs
    \/ ReloadAssign
    \/ RunEmit
    \/ RunFinally
    \/ CallerLoad
    \/ CallerParse
    \/ CallerBuild
    \/ CallerOpen
    \/ CallerDump

SpecReload == InitReload /\ [][NextReload]_vars

\* C21: at no time are two catalog rebuilds (clear_cache_and_reload or a
\* cache-miss parse_all_logs) in progress at once.
SingleWriter == ~(LoaderRebuilding /\ CallerRebuilding)

\* C22: while a reload runs, a reader of the catalog, through the service's
\* in-memory copy or through load_cached_data, observes the complete catalog
\* from before the reload or the complete one after it, never a missing or
\* partly written one.
AtomicReplacement ==
    /\ (IsRunning /\ loader.pc # "started") =>
          (memory = loader.before.memory \/ memory = loader.doc)
    /\ (caller.run # 0 /\ caller.run = tab.reloads /\ loader.before.file # None) =>
          /\ caller.seen # None
          /\ loader.pc \in {"assign", "after", "finally", "done"} =>
                (caller.seen = loader.before.file \/ caller.seen = loader.doc)

\* C23: every started run of the DataLoader emits exactly one finished signal
\* before it ends, whenever cancel() arrives.
OneShotCompletion ==
    /\ Len(loader.signals) <= 1
    /\ loader.pc = "done" => Len(loader.signals) = 1

\* C28: a cancel() that arrives inside reload_market_data does not stop the
\* rebuild: the run finishes it and reports finished(False, "Operation
\* cancelled"); and a run that reports cancellation or failure leaves the
\* service's in-memory catalog and the cache file as they were before the run.
AdvisoryCancel ==
    /\ (loader.cancelled_at \in InsideReload /\ loader.pc \in {"finally", "done"}) =>
          /\ loader.doc # None
          /\ loader.signals = <<[success |-> FALSE, message |-> "Operation cancelled"]>>
    /\ (loader.signals # <<>> /\ ~loader.signals[1].success /\ ~CallerRebuilding) =>
          /\ memory = loader.before.memory
          /\ StoredCatalog = loader.before.file

====
